---- MODULE Spec2Model ----
(***************************************************************************)
(* Model of the CURIE normalization-and-merge pipeline of litco:           *)
(*   src/src/normalization.py   RobustAPIClient, CurieNormalizer,          *)
(*                              merge_normalized_data,                     *)
(*                              convert_to_output_format                   *)
(*   src/src/sqlite_cleaner.py  SQLiteCleaner (two-pass streaming cleaner; *)
(*                              NGDCleaner in clean_ngd.py is the same)    *)
(*   src/src/clean_pubtator.py  PubTatorCleaner (two-pass, line stream)    *)
(*   src/src/pubtator_to_sqlite.py  candidate extraction of the converter  *)
(*   src/src/omnicorp_to_sqlite.py  convert_iri_to_curie                   *)
(*                                                                         *)
(* Identifiers are modelled as naturals: candidate CURIEs are 1..NumCuries *)
(* and canonical CURIEs 1..NumNorms, numbered in the lexicographic order   *)
(* of the strings they stand for, so that Python's sorted() on strings is  *)
(* the ascending order of the numbers.  PMIDs are the integers 1..MaxPmid. *)
(***************************************************************************)
EXTENDS Integers, Sequences, FiniteSets, TLC

\* ------------------------------------------------------------------ bounds
NumCuries == 2
NumNorms == 2
MaxPmid == 2
MaxLines == 2
BatchSize == 1
ChunkSize == 1
MaxRetriesBound == 3
NumKeys == 3
MaxIdLen == 3

Curies == 1..NumCuries
Norms == 1..NumNorms
Pmids == 1..MaxPmid

\* ----------------------------------------------------------- plain helpers
Min(a, b) == IF a <= b THEN a ELSE b

RECURSIVE Pow2(_)
Pow2(n) == IF n = 0 THEN 1 ELSE 2 * Pow2(n - 1)

Range(s) == {s[i] : i \in DOMAIN s}

\* Python's sorted() on a set of integers (or of identifiers, see above).
RECURSIVE SortedSeq(_)
SortedSeq(S) ==
    IF S = {} THEN <<>>
    ELSE LET m == CHOOSE x \in S : \A y \in S : x <= y
         IN  <<m>> \o SortedSeq(S \ {m})

\* All sequences over S of length at most n.
SeqsUpTo(S, n) == UNION {[1..k -> S] : k \in 0..n}

\* All sequences that list the elements of the finite set S once each.
Orderings(S) == {s \in [1..Cardinality(S) -> S] : Range(s) = S}

\* dict.update: the entries of d2 override those of d1.
DictUpdate(d1, d2) ==
    [k \in (DOMAIN d1) \cup (DOMAIN d2) |-> IF k \in DOMAIN d2 THEN d2[k] ELSE d1[k]]

EmptyDict == [k \in {} |-> 0]

\* f"PMID:{pmid}"
PmidCurie(pmid) == <<"PMID:", pmid>>


\* ------------------------------------------------------------------ state
VARIABLES
    \* --- RobustAPIClient (normalization.py:23-62)
    max_retries,      \* self.max_retries
    base_delay,       \* self.base_delay, in units of 0.1 s
    max_delay,        \* self.max_delay, in units of 0.1 s
    attempt,          \* loop variable of post_with_retry
    rpc,              \* position in post_with_retry: idle, try, backoff, returned, raised
    outcomes,         \* outcome of each POST request sent by the current call, in order
    sleeps,           \* the time.sleep calls of the current call: [attempt, delay, jitter]
    \* --- cleaner run (sqlite_cleaner.py / clean_pubtator.py) and its CurieNormalizer
    kind,             \* which cleaner runs: "sqlite", "pubtator", or "none"
    pc,               \* position in clean(): init, normalize, pass2, finalize, done, aborted, crashed
    table,            \* curie_to_pmids table rows: [curie, pmids] (read-only source)
    lines,            \* PubTator input lines, as parsed fields (read-only source)
    batch_size,       \* normalize_all_curies: batch_size argument
    service,          \* the tag lists the normalization service may attach to each canonical
    all_curies,       \* normalize_all_curies: list(curie_to_pmids.keys())
    batch_i,          \* normalize_all_curies: loop index i
    api_calls,        \* batches submitted to the API so far: [batch, raised, ids, types]
    mapping,          \* normalization_mapping: candidate -> canonical
    failed,           \* normalizer.failed_normalizations: candidate -> pmid list
    biolink,          \* normalizer.normalized_biolink_classes: canonical -> tag list
    n2o,              \* normalized_to_originals: canonical -> set of candidates
    tracker,          \* progress_tracker: canonical -> [seen, pmids]
    output_opened,    \* <dataset>_cleaned.jsonl has been opened for writing
    output,           \* records written to <dataset>_cleaned.jsonl, in order
    records_written,  \* records_written counter
    offset,           \* extract_data_in_chunks: offset
    chunk,            \* items of the current chunk_data not yet processed
    line_idx,         \* PubTator Pass 2: lines consumed
    failed_file,      \* <dataset>_failed_normalizations file: [exists, content]
    biolink_file,     \* <dataset>_biolink_classes.json: [exists, content]
    \* --- a call of one of the stand-alone conversion functions
    fn_call,          \* the function called and its arguments
    fn_result         \* what the call returned and the object state it left

retryVars == <<max_retries, base_delay, max_delay, attempt, rpc, outcomes, sleeps>>
sourceVars == <<kind, table, lines, batch_size, service>>
normVars == <<all_curies, batch_i, api_calls, mapping, failed, biolink>>
pass2Vars == <<n2o, tracker, output_opened, output, records_written, offset, chunk, line_idx>>
fileVars == <<failed_file, biolink_file>>
cleanerVars == <<sourceVars, pc, normVars, pass2Vars, fileVars>>
pureVars == <<fn_call, fn_result>>
vars == <<retryVars, cleanerVars, pureVars>>

\* ------------------------------------------- RobustAPIClient.post_with_retry
\* Delays are counted in units of 0.1 s.
BaseDelayDefault == 10
BaseDelayNormalizer == 20
MaxDelayDefault == 3000

AttemptOutcomes == {"ok", "timeout", "http_error", "request_error"}

\* mutant: one iteration too many
LoopContinuesInclusive(a, mr) == a <= mr

\* for attempt in range(self.max_retries)
LoopContinues(a, mr) == a < mr

\* if attempt < self.max_retries - 1
SleepsAfter(a, mr) == a < mr - 1

\* mutant: the cap at max_delay is forgotten
BackoffDelayUncapped(bd, a, md) == bd * Pow2(a)

\* delay = min(self.base_delay * (2 ** attempt), self.max_delay)
BackoffDelay(bd, a, md) == Min(bd * Pow2(a), md)

\* jitter = random.uniform(0, delay * 0.1): any value between the two ends
JitterChoices(delay) == 0..(delay \div 10)

RetryIdle ==
    /\ max_retries = 0 /\ base_delay = 0 /\ max_delay = 0
    /\ attempt = 0 /\ rpc = "idle" /\ outcomes = <<>> /\ sleeps = <<>>

\* One POST attempt and the except clauses that follow it.
Post ==
    /\ rpc = "try"
    /\ LoopContinues(attempt, max_retries)
    /\ \E outcome \in AttemptOutcomes :
         /\ outcomes' = Append(outcomes, outcome)
         /\ IF outcome = "ok"
            THEN rpc' = "returned" /\ attempt' = attempt
            ELSE IF SleepsAfter(attempt, max_retries)
                 THEN rpc' = "backoff" /\ attempt' = attempt
                 ELSE rpc' = "try" /\ attempt' = attempt + 1
    /\ UNCHANGED <<max_retries, base_delay, max_delay, sleeps, cleanerVars, pureVars>>

\* The backoff sleep between two attempts.
Backoff ==
    /\ rpc = "backoff"
    /\ LET delay == BackoffDelay(base_delay, attempt, max_delay)
       IN  \E jitter \in JitterChoices(delay) :
             sleeps' = Append(sleeps, [attempt |-> attempt, delay |-> delay, jitter |-> jitter])
    /\ attempt' = attempt + 1
    /\ rpc' = "try"
    /\ UNCHANGED <<max_retries, base_delay, max_delay, outcomes, cleanerVars, pureVars>>

\* raise Exception("Failed to complete request after ... attempts")
RaiseExhausted ==
    /\ rpc = "try"
    /\ ~LoopContinues(attempt, max_retries)
    /\ rpc' = "raised"
    /\ UNCHANGED <<max_retries, base_delay, max_delay, attempt, outcomes, sleeps, cleanerVars, pureVars>>

\* ------------------------------------------------ CurieNormalizer (Pass 1)
NoId == 0

RECURSIVE StoreBiolinkClassesOnce(_, _, _)
RECURSIVE StoreBiolinkClasses(_, _, _)

\* the 'type' lists a node of the response may carry: none, and two different ones
TypeLists == {<<>>, <<"biolink:Gene">>, <<"biolink:Disease", "biolink:NamedThing">>}

\* A service that may attach any tag list to any canonical identifier, also
\* different ones in different answers.
AnyService == [n \in Norms |-> TypeLists]

\* A service whose tag list is a function of the canonical identifier: the
\* first identifier is a gene, the others carry no tags.
ConsistentService == [n \in Norms |-> {IF n = 1 THEN <<"biolink:Gene">> ELSE <<>>}]

\* One entry of the API response for a submitted candidate: the key is absent,
\* its value is empty/None, or a node object whose id.identifier may be missing
\* and whose 'type' is one of the tag lists the service gives that identifier.
ApiEntries(svc) ==
    {[kind |-> "absent", identifier |-> NoId, type |-> <<>>],
     [kind |-> "empty", identifier |-> NoId, type |-> <<>>],
     [kind |-> "node", identifier |-> NoId, type |-> <<>>]}
      \cup UNION {{[kind |-> "node", identifier |-> n, type |-> t] : t \in svc[n]} : n \in Norms}

\* mutant: a node object counts as resolved even without an identifier
ResolvedWithoutIdentifier(result, c) ==
    /\ c \in DOMAIN result
    /\ result[c].kind = "node"

\* original_curie in result and result[original_curie], then normalized_id truthy
Resolved(result, c) ==
    /\ c \in DOMAIN result
    /\ result[c].kind = "node"
    /\ result[c].identifier # NoId

\* the identifier the response carries for each candidate of the batch, NoId if none
AnswerIds(batch, result) ==
    [c \in Range(batch) |-> IF Resolved(result, c) THEN result[c].identifier ELSE NoId]

\* failed_normalizations[curie] = pmid_data[curie] for every curie of cs in pmid_data
RecordFailures(fm, cs, pmid_data) ==
    DictUpdate(fm, [c \in (cs \cap DOMAIN pmid_data) |-> pmid_data[c]])

\* the tag list the response carries for each candidate of the batch
AnswerTypes(batch, result) ==
    [c \in Range(batch) |-> IF Resolved(result, c) THEN result[c].type ELSE <<>>]

\* mutant: a tag list already stored for the identifier is kept
StoreBiolinkClassesOnce(bl, curies, result) ==
    IF curies = <<>> THEN bl
    ELSE LET c == Head(curies)
             stored == IF Resolved(result, c) /\ result[c].type # <<>>
                          /\ result[c].identifier \notin DOMAIN bl
                       THEN DictUpdate(bl, [n \in {result[c].identifier} |-> result[c].type])
                       ELSE bl
         IN  StoreBiolinkClassesOnce(stored, Tail(curies), result)

\* the loop of normalize_curies, as far as normalized_biolink_classes goes:
\* if biolink_types: self.normalized_biolink_classes[normalized_id] = biolink_types
StoreBiolinkClasses(bl, curies, result) ==
    IF curies = <<>> THEN bl
    ELSE LET c == Head(curies)
             stored == IF Resolved(result, c) /\ result[c].type # <<>>
                       THEN DictUpdate(bl, [n \in {result[c].identifier} |-> result[c].type])
                       ELSE bl
         IN  StoreBiolinkClasses(stored, Tail(curies), result)

\* normalize_curies, the API call having returned `result`
NormalizeCuriesOk(curies, pmid_data, result, fm) ==
    LET ok == {c \in Range(curies) : Resolved(result, c)}
    IN  [mapping |-> [c \in ok |-> result[c].identifier],
         failed  |-> RecordFailures(fm, Range(curies) \ ok, pmid_data)]

NormalizeCuriesRaisedSilently(curies, pmid_data, fm) ==
    [mapping |-> EmptyDict, failed |-> fm]

\* normalize_curies, post_with_retry having raised: the except branch
NormalizeCuriesRaised(curies, pmid_data, fm) ==
    [mapping |-> EmptyDict,
     failed  |-> RecordFailures(fm, Range(curies), pmid_data)]

\* mutant: each slice runs one element into the next one
BatchAtOverlapping(cs, i, bs) == SubSeq(cs, i + 1, Min(i + bs + 1, Len(cs)))

\* batch = all_curies[i:i + batch_size]
BatchAt(cs, i, bs) == SubSeq(cs, i + 1, Min(i + bs, Len(cs)))

\* dummy_pmid_data = {curie: [] for curie in all_original_curies}
DummyPmidData(cs) == [c \in Range(cs) |-> <<>>]

\* What the mocked service does with one batch: the call exhausts its retries
\* (post_with_retry raises), or it answers with an entry per candidate.
ApiOutcomes(batch, svc) ==
    {[raised |-> TRUE, result |-> EmptyDict]}
      \cup {[raised |-> FALSE, result |-> r] : r \in [Range(batch) -> ApiEntries(svc)]}

\* One iteration of normalize_all_curies: normalize_curies on the next batch.
NormalizeBatch ==
    /\ pc = "normalize"
    /\ batch_i < Len(all_curies)
    /\ LET batch == BatchAt(all_curies, batch_i, batch_size)
           pmid_data == DummyPmidData(all_curies)
       IN  \E o \in ApiOutcomes(batch, service) :
             LET r == IF o.raised
                      THEN NormalizeCuriesRaised(batch, pmid_data, failed)
                      ELSE NormalizeCuriesOk(batch, pmid_data, o.result, failed)
             IN  /\ mapping' = DictUpdate(mapping, r.mapping)
                 /\ failed' = r.failed
                 /\ biolink' = IF o.raised THEN biolink
                                ELSE StoreBiolinkClasses(biolink, batch, o.result)
                 /\ api_calls' = Append(api_calls, [batch |-> batch, raised |-> o.raised,
                                                    ids |-> AnswerIds(batch, o.result),
                                                    types |-> AnswerTypes(batch, o.result)])
    /\ batch_i' = batch_i + batch_size
    /\ UNCHANGED <<retryVars, pureVars, sourceVars, pc, all_curies, pass2Vars, fileVars>>

\* mutant: the mapping is taken as complete while batches are still to come
NormalizedEarly == pc = "normalize"

\* normalize_all_curies has returned
Normalized == pc = "normalize" /\ batch_i >= Len(all_curies)

\* normalize_all_curies called on its own: return normalized_mapping
NormalizeAllReturn ==
    /\ kind = "normalizer"
    /\ Normalized
    /\ pc' = "returned"
    /\ UNCHANGED <<retryVars, pureVars, sourceVars, normVars, pass2Vars, fileVars>>

\* mutant: the mapping is never taken to be empty
MappingIsEmptyNever(nm) == FALSE

\* not normalization_mapping
MappingIsEmpty(nm) == DOMAIN nm = {}

\* if not normalization_mapping: return
AbortEmptyMapping ==
    /\ kind \in {"sqlite", "pubtator"}
    /\ Normalized
    /\ MappingIsEmpty(mapping)
    /\ pc' = "aborted"
    /\ all_curies' = <<>> /\ api_calls' = <<>>
    /\ UNCHANGED <<retryVars, pureVars, sourceVars, batch_i, mapping, failed, biolink, pass2Vars, fileVars>>

\* ------------------------------------------------- Pass 2: accumulate, emit
\* normalized_to_originals[norm].add(orig) for every item of the mapping
ReverseMapping(nm) ==
    [n \in {nm[c] : c \in DOMAIN nm} |-> {c \in DOMAIN nm : nm[c] = n}]

\* progress_tracker[norm_curie] = (set(), set())
InitTracker(rev) == [n \in DOMAIN rev |-> [seen |-> {}, pmids |-> {}]]

\* [f"PMID:{pmid}" for pmid in sorted(accumulated_pmids)]
Publications(acc) ==
    LET s == SortedSeq(acc) IN [i \in 1..Len(s) |-> PmidCurie(s[i])]

\* the record dictionary written as one JSON line
MakeRecord(n, expected, acc) ==
    [curie |-> n, original_curies |-> SortedSeq(expected), publications |-> Publications(acc)]

\* mutant: complete as soon as what was seen is among the expected
IsCompleteSubset(seen, expected) == seen \subseteq expected

\* if seen_originals == expected_originals
IsComplete(seen, expected) == seen = expected

\* mutant: the state of an emitted identifier is kept
DictKeep(d, k) == d

\* del progress_tracker[normalized_curie]
DictRemove(d, k) == [x \in (DOMAIN d) \ {k} |-> d[x]]

\* The body of the Pass 2 loop for one (candidate, publications) contribution.
\* st = [tracker, output, records_written, key_error]; key_error reports that
\* progress_tracker[normalized_curie] was looked up after its eviction.
Pass2Step(nm, rev, st, curie, pmids) ==
    IF curie \notin DOMAIN nm THEN [st EXCEPT !.key_error = FALSE]
    ELSE LET n == nm[curie] IN
         IF n \notin DOMAIN st.tracker THEN [st EXCEPT !.key_error = TRUE]
         ELSE LET seen == st.tracker[n].seen \cup {curie}
                  acc  == st.tracker[n].pmids \cup pmids
              IN  IF IsComplete(seen, rev[n])
                  THEN [tracker |-> DictRemove(st.tracker, n),
                        output |-> Append(st.output, MakeRecord(n, rev[n], acc)),
                        records_written |-> st.records_written + 1,
                        key_error |-> FALSE]
                  ELSE [tracker |-> [st.tracker EXCEPT ![n] = [seen |-> seen, pmids |-> acc]],
                        output |-> st.output,
                        records_written |-> st.records_written,
                        key_error |-> FALSE]

Pass2State ==
    [tracker |-> tracker, output |-> output, records_written |-> records_written,
     key_error |-> FALSE]

\* Mapping is non-empty: build the reverse mapping and the tracker, open the
\* output file for writing (truncating it) and start the second scan.
StartPass2 ==
    /\ kind \in {"sqlite", "pubtator"}
    /\ Normalized
    /\ ~MappingIsEmpty(mapping)
    /\ n2o' = ReverseMapping(mapping)
    /\ tracker' = InitTracker(ReverseMapping(mapping))
    /\ output_opened' = TRUE
    /\ output' = <<>>
    /\ records_written' = 0
    /\ offset' = 0 /\ chunk' = <<>> /\ line_idx' = 0
    /\ all_curies' = <<>> /\ api_calls' = <<>>
    /\ pc' = "pass2"
    /\ UNCHANGED <<retryVars, pureVars, sourceVars, batch_i, mapping, failed, biolink, fileVars>>

\* -------------------------------------------------------- SQLiteCleaner
\* The pmids column is text; ast.literal_eval gives a list, some other literal
\* (kind "nonlist"), or raises ValueError/SyntaxError (kind "error").
\* The list literals range over the empty list, the one-element lists, a
\* two-element list in descending order and one that repeats an element.
PmidLists == {<<>>, <<MaxPmid, 1>>, <<1, 1>>} \cup {<<p>> : p \in Pmids}

PmidCells ==
    {[kind |-> "list", val |-> l] : l \in PmidLists}
      \cup {[kind |-> "nonlist", val |-> <<>>], [kind |-> "error", val |-> <<>>]}

\* mutant: any literal that parses is taken, the isinstance check forgotten
ParsesToAnyLiteral(cell) == cell.kind # "error"

\* try: pmids_list = ast.literal_eval(pmids_str); if isinstance(pmids_list, list)
ParsesToList(cell) == cell.kind = "list"

TableRows == [curie : Curies, pmids : PmidCells]

\* curie is the table's PRIMARY KEY: no two rows share it
Tables ==
    {t \in SeqsUpTo(TableRows, NumCuries) :
        \A i, j \in DOMAIN t : t[i].curie = t[j].curie => i = j}

\* build_complete_normalization_mapping: SELECT curie FROM curie_to_pmids
Pass1Curies(t) == [i \in 1..Len(t) |-> t[i].curie]

\* rows of one LIMIT chunk_size OFFSET offset query
ChunkRows(t, off, cs) == SubSeq(t, off + 1, Min(off + cs, Len(t)))

RowParses(r) == ParsesToList(r.pmids)

\* chunk_data: the rows whose pmids parse to a list, as (curie, pmids) items
ChunkData(rows) ==
    LET good == SelectSeq(rows, RowParses)
    IN  [i \in 1..Len(good) |-> [curie |-> good[i].curie, pmids |-> good[i].pmids.val]]

\* Pass 1 of SQLiteCleaner: collect every curie of the table
SqlitePass1Scan ==
    /\ kind = "sqlite"
    /\ pc = "init"
    /\ all_curies' = Pass1Curies(table)
    /\ batch_i' = 0
    /\ pc' = "normalize"
    /\ UNCHANGED <<retryVars, pureVars, sourceVars, api_calls, mapping, failed, biolink, pass2Vars, fileVars>>

\* extract_data_in_chunks: fetch the next chunk, or end the scan when no row is left
FetchChunk ==
    /\ kind = "sqlite"
    /\ pc = "pass2"
    /\ chunk = <<>>
    /\ LET rows == ChunkRows(table, offset, ChunkSize)
       IN  IF rows = <<>>
           THEN pc' = "finalize" /\ UNCHANGED <<chunk, offset>>
           ELSE pc' = pc /\ chunk' = ChunkData(rows) /\ offset' = offset + ChunkSize
    /\ UNCHANGED <<retryVars, pureVars, sourceVars, normVars, n2o, tracker, output_opened, output,
                   records_written,
                   line_idx, fileVars>>

\* the body of "for original_curie, pmids in chunk_data.items()"
ProcessItem ==
    /\ kind = "sqlite"
    /\ pc = "pass2"
    /\ chunk # <<>>
    /\ LET item == Head(chunk)
           st == Pass2Step(mapping, n2o, Pass2State, item.curie, Range(item.pmids))
       IN  /\ tracker' = st.tracker
           /\ output' = st.output
           /\ records_written' = st.records_written
           /\ pc' = IF st.key_error THEN "crashed" ELSE pc
    /\ chunk' = Tail(chunk)
    /\ UNCHANGED <<retryVars, pureVars, sourceVars, normVars, n2o, output_opened, offset, line_idx, fileVars>>

\* write_failed_normalizations: the file is written only when there are failures
FailedFileAfter(ff, fm) ==
    IF DOMAIN fm # {} THEN [exists |-> TRUE, content |-> SortedSeq(DOMAIN fm)] ELSE ff

\* if biolink_classes: write_biolink_classes(biolink_classes, path)
BiolinkFileAfter(bf, bl) ==
    IF DOMAIN bl # {} THEN [exists |-> TRUE, content |-> bl] ELSE bf

\* the side-channel writes after the scan, and the return
Finalize ==
    /\ pc = "finalize"
    /\ failed_file' = FailedFileAfter(failed_file, failed)
    /\ biolink_file' = BiolinkFileAfter(biolink_file, biolink)
    /\ pc' = "done"
    /\ UNCHANGED <<retryVars, pureVars, sourceVars, normVars, pass2Vars>>

\* ------------------------------------------------------- PubTatorCleaner
\* A line of the PubTator file after the field checks of _parse_line: kind "ok"
\* carries the integer PMID and the candidate built from the concept ID; kind
\* "bad" is a line that both passes skip (wrong field count, non-numeric PMID,
\* or a concept ID that yields no candidate).
PubTatorLines ==
    {[kind |-> "ok", pmid |-> p, curie |-> c] : p \in Pmids, c \in Curies}
      \cup {[kind |-> "bad", pmid |-> 0, curie |-> 0]}

LineFiles == SeqsUpTo(PubTatorLines, MaxLines)

\* all_curies of build_complete_normalization_mapping: curie is not None
PubTatorPass1Curies(ls) == {ls[i].curie : i \in {j \in DOMAIN ls : ls[j].kind = "ok"}}

\* The body of the Pass 2 loop for one line; a KeyError raised by the tracker
\* lookup is caught by "except Exception" and the line is dropped.
PubTatorLineStep(nm, rev, st, line) ==
    IF line.kind # "ok" THEN st
    ELSE LET r == Pass2Step(nm, rev, st, line.curie, {line.pmid})
         IN  IF r.key_error THEN st ELSE r

\* Pass 1 of PubTatorCleaner: the candidates are collected in a set, so the
\* order in which normalize_all_curies lists them is arbitrary.
PubTatorPass1Scan ==
    /\ kind = "pubtator"
    /\ pc = "init"
    /\ all_curies' \in Orderings(PubTatorPass1Curies(lines))
    /\ batch_i' = 0
    /\ pc' = "normalize"
    /\ UNCHANGED <<retryVars, pureVars, sourceVars, api_calls, mapping, failed, biolink, pass2Vars, fileVars>>

\* one iteration of "for line_num, line in enumerate(f, 1)" in Pass 2
PubTatorProcessLine ==
    /\ kind = "pubtator"
    /\ pc = "pass2"
    /\ line_idx < Len(lines)
    /\ LET st == PubTatorLineStep(mapping, n2o, Pass2State, lines[line_idx + 1])
       IN  /\ tracker' = st.tracker
           /\ output' = st.output
           /\ records_written' = st.records_written
    /\ line_idx' = line_idx + 1
    /\ UNCHANGED <<retryVars, pureVars, sourceVars, pc, normVars, n2o, output_opened, offset, chunk,
                   fileVars>>

\* end of the input file: process_file_streaming_chunked returns
PubTatorEndOfFile ==
    /\ kind = "pubtator"
    /\ pc = "pass2"
    /\ line_idx >= Len(lines)
    /\ pc' = "finalize"
    /\ UNCHANGED <<retryVars, pureVars, sourceVars, normVars, pass2Vars, fileVars>>

\* The whole Pass 2 loop over a line sequence, from a fresh tracker.
RECURSIVE PubTatorFold(_, _, _, _)
PubTatorFold(nm, rev, st, ls) ==
    IF ls = <<>> THEN st
    ELSE PubTatorFold(nm, rev, PubTatorLineStep(nm, rev, st, Head(ls)), Tail(ls))

PubTatorPass2(nm, ls) ==
    PubTatorFold(nm, ReverseMapping(nm),
                 [tracker |-> InitTracker(ReverseMapping(nm)), output |-> <<>>,
                  records_written |-> 0, key_error |-> FALSE], ls)

\* --------------------------------------- in-memory merge (normalization.py)
\* Python's sorted() on a list: duplicates are kept.
RECURSIVE SortedList(_)
SortedList(s) ==
    IF s = <<>> THEN <<>>
    ELSE LET i == CHOOSE k \in DOMAIN s : \A j \in DOMAIN s : s[k] <= s[j]
         IN  <<s[i]>> \o SortedList(SubSeq(s, 1, i - 1) \o SubSeq(s, i + 1, Len(s)))

\* mutant: normalized_mapping.get(original_curie, original_curie), so that a
\* candidate without a mapping is kept under its own name
MergeNormalizedDataKeepFailed(c2p, nm) ==
    LET norm(c) == IF c \in DOMAIN nm THEN nm[c] ELSE c
        keys == {norm(c2p[i].curie) : i \in DOMAIN c2p}
        keep(n) == SelectSeq(c2p, LAMBDA it : norm(it.curie) = n)
    IN  [merged_data |->
             [n \in keys |-> UNION {Range(c2p[i].pmids) : i \in {j \in DOMAIN c2p : norm(c2p[j].curie) = n}}],
         original_curies_by_normalized |->
             [n \in keys |-> [i \in 1..Len(keep(n)) |-> keep(n)[i].curie]]]

\* merge_normalized_data; c2p is the dictionary as its item sequence.
MergeNormalizedData(c2p, nm) ==
    LET hit(n) == {i \in DOMAIN c2p : c2p[i].curie \in DOMAIN nm /\ nm[c2p[i].curie] = n}
        keys == {nm[c2p[i].curie] : i \in {j \in DOMAIN c2p : c2p[j].curie \in DOMAIN nm}}
        keep(n) == SelectSeq(c2p, LAMBDA it : it.curie \in DOMAIN nm /\ nm[it.curie] = n)
    IN  [merged_data |-> [n \in keys |-> UNION {Range(c2p[i].pmids) : i \in hit(n)}],
         original_curies_by_normalized |->
             [n \in keys |-> [i \in 1..Len(keep(n)) |-> keep(n)[i].curie]]]

\* mutant: the contributing candidates are listed in the order met
ConvertToOutputFormatAsMet(merged_data, originals) ==
    LET keys == SortedSeq(DOMAIN merged_data)
    IN  [i \in 1..Len(keys) |->
            [curie |-> keys[i],
             original_curies |-> originals[keys[i]],
             publications |-> Publications(merged_data[keys[i]])]]

\* convert_to_output_format, including the final sort by curie
ConvertToOutputFormat(merged_data, originals) ==
    LET keys == SortedSeq(DOMAIN merged_data)
    IN  [i \in 1..Len(keys) |->
            [curie |-> keys[i],
             original_curies |-> SortedList(originals[keys[i]]),
             publications |-> Publications(merged_data[keys[i]])]]

\* the non-streaming path on a candidate -> publications dictionary
InMemoryOutput(c2p, nm) ==
    LET m == MergeNormalizedData(c2p, nm)
    IN  ConvertToOutputFormat(m.merged_data, m.original_curies_by_normalized)

\* ---------------------------------------------------------- specifications
\* a new CurieNormalizer, no pass started, an empty output directory
NormalizerFresh ==
    /\ all_curies = <<>> /\ batch_i = 0 /\ api_calls = <<>>
    /\ mapping = EmptyDict /\ failed = EmptyDict /\ biolink = EmptyDict
    /\ n2o = EmptyDict /\ tracker = EmptyDict
    /\ output_opened = FALSE /\ output = <<>> /\ records_written = 0
    /\ offset = 0 /\ chunk = <<>> /\ line_idx = 0
    /\ failed_file = [exists |-> FALSE, content |-> <<>>]
    /\ biolink_file = [exists |-> FALSE, content |-> EmptyDict]

CleanerIdle ==
    /\ kind = "none" /\ pc = "idle" /\ table = <<>> /\ lines = <<>>
    /\ batch_size = BatchSize /\ service = ConsistentService
    /\ NormalizerFresh

CleanerFresh ==
    /\ pc = "init"
    /\ batch_size = BatchSize /\ service = ConsistentService
    /\ NormalizerFresh

NoCall == fn_call = [fn |-> "none"] /\ fn_result = [done |-> FALSE]

InitSqlite ==
    /\ RetryIdle /\ NoCall
    /\ kind = "sqlite" /\ table \in Tables /\ lines = <<>>
    /\ CleanerFresh

InitPubTator ==
    /\ RetryIdle /\ NoCall
    /\ kind = "pubtator" /\ table = <<>> /\ lines \in LineFiles
    /\ CleanerFresh

\* The constructor's arguments: any retry count up to the bound; the base
\* delays the code uses; the code's max_delay and a small one that the
\* doubling reaches within the bound.
InitRetry ==
    /\ CleanerIdle /\ NoCall
    /\ max_retries \in 0..MaxRetriesBound
    /\ base_delay \in {BaseDelayDefault, BaseDelayNormalizer}
    /\ max_delay \in {30, MaxDelayDefault}
    /\ attempt = 0 /\ rpc = "try" /\ outcomes = <<>> /\ sleeps = <<>>

NextSqlite ==
    \/ SqlitePass1Scan
    \/ NormalizeBatch
    \/ AbortEmptyMapping
    \/ StartPass2
    \/ FetchChunk
    \/ ProcessItem
    \/ Finalize

NextPubTator ==
    \/ PubTatorPass1Scan
    \/ NormalizeBatch
    \/ AbortEmptyMapping
    \/ StartPass2
    \/ PubTatorProcessLine
    \/ PubTatorEndOfFile
    \/ Finalize

\* normalize_all_curies on a new CurieNormalizer: a dictionary of up to NumKeys
\* candidates (its keys in iteration order), any batch size up to one more
\* than that, and a service free to answer anything.
InitNormalizer ==
    /\ RetryIdle /\ NoCall
    /\ kind = "normalizer" /\ table = <<>> /\ lines = <<>>
    /\ pc = "normalize"
    /\ all_curies \in {[i \in 1..n |-> i] : n \in 0..NumKeys}
    /\ batch_size \in 1..(NumKeys + 1)
    /\ service = AnyService
    /\ batch_i = 0 /\ api_calls = <<>>
    /\ mapping = EmptyDict /\ failed = EmptyDict /\ biolink = EmptyDict
    /\ n2o = EmptyDict /\ tracker = EmptyDict
    /\ output_opened = FALSE /\ output = <<>> /\ records_written = 0
    /\ offset = 0 /\ chunk = <<>> /\ line_idx = 0
    /\ failed_file = [exists |-> FALSE, content |-> <<>>]
    /\ biolink_file = [exists |-> FALSE, content |-> EmptyDict]

NextNormalizer == NormalizeBatch \/ NormalizeAllReturn

NextRetry == Post \/ Backoff \/ RaiseExhausted

\* SQLiteCleaner.clean on any table
Spec == InitSqlite /\ [][NextSqlite]_vars

\* PubTatorCleaner.clean on any line file
SpecPubTator == InitPubTator /\ [][NextPubTator]_vars

NextCleaners ==
    \/ SqlitePass1Scan
    \/ PubTatorPass1Scan
    \/ NormalizeBatch
    \/ AbortEmptyMapping
    \/ StartPass2
    \/ FetchChunk
    \/ ProcessItem
    \/ PubTatorProcessLine
    \/ PubTatorEndOfFile
    \/ Finalize

\* either streaming cleaner
SpecCleaners == (InitSqlite \/ InitPubTator) /\ [][NextCleaners]_vars

\* CurieNormalizer.normalize_all_curies, one call on a new normalizer
SpecNormalizer == InitNormalizer /\ [][NextNormalizer]_vars

\* RobustAPIClient.post_with_retry, one call
SpecRetry == InitRetry /\ [][NextRetry]_vars

\* the same call, the interpreter always taking the next step of the loop
SpecRetryFair == SpecRetry /\ WF_vars(NextRetry)

\* --------------------------------------- PubTator concept IDs and raw lines
\* A string is modelled as the sequence of its pieces: single characters, or
\* literal pieces ("CVCL_", "NCBITaxon", ...) that the code handles as a whole.
\* A concept-ID field is built from the sentinel "-", a blank, the colon, the
\* semicolon, a digit, a letter and the literal "CVCL_".
IdTokens == {"-", " ", ":", ";", "1", "x", "CVCL_"}

ConceptIds == SeqsUpTo(IdTokens, MaxIdLen)

\* the entity types of the file, in several spellings, and one unknown to the code
EntityTypes == {"Species", "species", "GENE", "Disease", "chemical", "CellLine"}

\* str.lower() and str.upper() on the entity types
CaseTable ==
    [t \in EntityTypes |->
        CASE t \in {"Species", "species"} -> [lower |-> "species", upper |-> "SPECIES"]
          [] t = "GENE" -> [lower |-> "gene", upper |-> "GENE"]
          [] t = "Disease" -> [lower |-> "disease", upper |-> "DISEASE"]
          [] t = "chemical" -> [lower |-> "chemical", upper |-> "CHEMICAL"]
          [] t = "CellLine" -> [lower |-> "cellline", upper |-> "CELLLINE"]]

\* mutant: the type is compared as it is spelled
LowerAsSpelled(t) == t

\* entity_type.lower()
Lower(t) == CaseTable[t].lower

\* entity_type.upper()
Upper(t) == CaseTable[t].upper

\* not s.strip(): nothing but whitespace
IsBlank(s) == \A i \in DOMAIN s : s[i] = " "

\* s.isdigit(): at least one character, all of them digits
IsDigit(s) == s # <<>> /\ \A i \in DOMAIN s : s[i] = "1"

\* ":" in s
HasColon(s) == \E i \in DOMAIN s : s[i] = ":"

\* s.strip()
RECURSIVE LStrip(_)
LStrip(s) == IF s # <<>> /\ Head(s) = " " THEN LStrip(Tail(s)) ELSE s

RECURSIVE RStrip(_)
RStrip(s) == IF s # <<>> /\ s[Len(s)] = " " THEN RStrip(SubSeq(s, 1, Len(s) - 1)) ELSE s

Strip(s) == RStrip(LStrip(s))

\* s.split(';'): the pieces between the semicolons, in order
RECURSIVE SplitSemicolon(_)
SplitSemicolon(s) ==
    IF \A i \in DOMAIN s : s[i] # ";" THEN <<s>>
    ELSE LET k == CHOOSE i \in DOMAIN s : s[i] = ";" /\ \A j \in 1..(i - 1) : s[j] # ";"
         IN  <<SubSeq(s, 1, k - 1)>> \o SplitSemicolon(SubSeq(s, k + 1, Len(s)))

NoCurie == [none |-> TRUE, curie |-> <<>>]

SomeCurie(c) == [none |-> FALSE, curie |-> c]

\* convert_concept_id_to_curie; cvcl is the prefix that replaces "CVCL_"
\* ("CLO:" in PubTatorCleaner, "Cellosaurus:" in PubTatorToSQLiteConverter)
ConvertConceptIdToCurie(concept_id, entity_type, cvcl) ==
    IF concept_id = <<"-">> \/ IsBlank(concept_id) THEN NoCurie
    ELSE IF HasColon(concept_id) THEN SomeCurie(concept_id)
    ELSE IF IsDigit(concept_id)
         THEN IF Lower(entity_type) = "species" THEN SomeCurie(<<"NCBITaxon", ":">> \o concept_id)
              ELSE IF Lower(entity_type) = "gene" THEN SomeCurie(<<"NCBIGene", ":">> \o concept_id)
              ELSE IF Lower(entity_type) = "disease" THEN SomeCurie(<<"OMIM", ":">> \o concept_id)
              ELSE IF Lower(entity_type) = "chemical"
                   THEN SomeCurie(<<"UNKNOWN_", "CHEMICAL", ":">> \o concept_id)
              ELSE SomeCurie(<<"UNKNOWN_", Upper(entity_type), ":">> \o concept_id)
    ELSE IF Head(concept_id) = "CVCL_" THEN SomeCurie(<<cvcl, ":">> \o Tail(concept_id))
    ELSE SomeCurie(concept_id)

\* A line of the input file, as what line.strip().split('\t') makes of it: a
\* blank line, a line with another number of fields than five, a line whose
\* first field is not an integer, or a line with an integer PMID, an entity type
\* and a concept-ID field.
RawLines ==
    {[parts |-> 0, pmid |-> 0, entity_type |-> "Species", concept_id |-> <<>>],
     [parts |-> 4, pmid |-> 1, entity_type |-> "Species", concept_id |-> <<"1">>],
     [parts |-> 5, pmid |-> 0, entity_type |-> "Species", concept_id |-> <<"1">>]}
      \cup [parts : {5}, pmid : Pmids, entity_type : EntityTypes, concept_id : ConceptIds]

\* the line passes the checks that precede the conversion: it is not blank, has
\* five fields, and int(pmid_str) does not raise (pmid 0 stands for a field
\* that is not an integer)
FieldsOk(line) == line.parts = 5 /\ line.pmid # 0

\* PubTatorCleaner._parse_line as used by Pass 1: (pmid, curie) or (None, None)
ParseLine(line) ==
    IF ~FieldsOk(line) THEN <<>>
    ELSE LET r == ConvertConceptIdToCurie(line.concept_id, line.entity_type, "CLO")
         IN  IF r.none THEN <<>> ELSE <<[pmid |-> line.pmid, curie |-> r.curie]>>

\* The parsing part of the Pass 2 loop of process_file_streaming_chunked, up to
\* the lookup of the candidate in the mapping.
Pass2ParseLine(line) ==
    IF line.parts = 0 THEN <<>>
    ELSE IF line.parts # 5 THEN <<>>
    ELSE IF line.pmid = 0 THEN <<>>
    ELSE LET r == ConvertConceptIdToCurie(line.concept_id, line.entity_type, "CLO")
         IN  IF r.none THEN <<>> ELSE <<[pmid |-> line.pmid, curie |-> r.curie]>>

\* The loop over the semicolon-delimited values in
\* PubTatorToSQLiteConverter.pass1_extract_and_sort: the pairs written for
\* the values `ids` of a line.
RECURSIVE ConverterPairs(_, _, _)
ConverterPairs(ids, entity_type, pmid) ==
    IF ids = <<>> THEN <<>>
    ELSE LET individual == Strip(Head(ids))
             rest == ConverterPairs(Tail(ids), entity_type, pmid)
         IN  IF individual = <<>> THEN rest
             ELSE LET r == ConvertConceptIdToCurie(individual, entity_type, "Cellosaurus")
                  IN  IF r.none THEN rest
                      ELSE <<[pmid |-> pmid, curie |-> r.curie]>> \o rest

\* PubTatorToSQLiteConverter.pass1_extract_and_sort on one line
ConverterExtract(line) ==
    IF ~FieldsOk(line) THEN <<>>
    ELSE ConverterPairs(SplitSemicolon(line.concept_id), line.entity_type, line.pmid)

Pending == [done |-> FALSE, pairs |-> <<>>]

Extracted(pairs) == [done |-> TRUE, pairs |-> pairs]

\* Pass 1 of PubTatorCleaner reads the line
Pass1ReadsLine ==
    /\ fn_call.fn = "parse_line"
    /\ ~fn_result.pass1.done
    /\ fn_result' = [fn_result EXCEPT !.pass1 = Extracted(ParseLine(fn_call.line))]
    /\ UNCHANGED <<retryVars, cleanerVars, fn_call>>

\* Pass 2 of PubTatorCleaner reads the line
Pass2ReadsLine ==
    /\ fn_call.fn = "parse_line"
    /\ ~fn_result.pass2.done
    /\ fn_result' = [fn_result EXCEPT !.pass2 = Extracted(Pass2ParseLine(fn_call.line))]
    /\ UNCHANGED <<retryVars, cleanerVars, fn_call>>

\* Pass 1 of PubTatorToSQLiteConverter reads the line
ConverterReadsLine ==
    /\ fn_call.fn = "parse_line"
    /\ ~fn_result.converter.done
    /\ fn_result' = [fn_result EXCEPT !.converter = Extracted(ConverterExtract(fn_call.line))]
    /\ UNCHANGED <<retryVars, cleanerVars, fn_call>>

\* any one line of a PubTator file, not yet read by anyone
InitParse ==
    /\ RetryIdle /\ CleanerIdle
    /\ fn_call \in [fn : {"parse_line"}, line : RawLines]
    /\ fn_result = [pass1 |-> Pending, pass2 |-> Pending, converter |-> Pending]

NextParse == Pass1ReadsLine \/ Pass2ReadsLine \/ ConverterReadsLine

\* the candidate extraction of a PubTator line by its three readers
SpecParse == InitParse /\ [][NextParse]_vars

\* -------------------------- OmniCorpToSQLiteConverter.convert_iri_to_curie
\* An IRI is the sequence of its pieces: a scheme, the host-and-path literals
\* the function looks for, and the pieces of the local part.
Obo == "purl.obolibrary.org/obo/"

IriSchemes == {<<>>, <<"http://">>, <<"https://">>, <<"http://", "www.">>}

\* local parts under purl.obolibrary.org/obo/: an ontology name, "_", a code
OboWords == {"CHEBI", "RO", "NCBITaxon", "NCIT", "PR", "x"}

IriCodes == {<<>>, <<"10">>, <<"C12378">>, <<"A0A0R4">>, <<"x">>}

\* the other sites the function knows, and one it does not know
SiteBases ==
    {<<"id.nlm.nih.gov/mesh/">>,
     <<"dictybase.org", "/gene/">>,
     <<"flybase.org", "/reports/">>,
     <<"identifiers.org", "/hgnc/">>,
     <<"genenames.org/cgi-bin/gene_symbol_report?hgnc_id=">>,
     <<"genenames.org/data/gene-symbol-report/#!/hgnc_id/HGNC:">>,
     <<"rgd.mcw.edu/rgdweb/report/gene/main.html?id=">>,
     <<"ebi.ac.uk/efo", "/EFO_">>,
     <<"informatics.jax.org", "/marker/", "MGI", ":">>,
     <<"ncbi.nlm.nih.gov", "/gene/">>,
     <<"orpha.net/ORDO/Orphanet_">>,
     <<"wormbase.org/species/c_elegans", "/gene/">>,
     <<"yeastgenome.org", "/locus/">>,
     <<"zfin.org/action/marker", "/view/">>,
     <<"example.org/term/">>}

SiteCodes == IriCodes \cup {<<"WBGene1">>, <<"10", "/gene/", "x">>}

Iris ==
    {s \o <<Obo, w, "_">> \o c : s \in IriSchemes, w \in OboWords, c \in IriCodes}
      \cup {s \o b \o c : s \in IriSchemes, b \in SiteBases, c \in SiteCodes}

\* the pieces that the character classes of the regular expressions match whole
UpperWords == {"CHEBI", "RO", "NCIT", "PR"}
DigitCodes == {"10"}
NcitCodes == {"C12378"}
UpperDigitCodes == {"10", "C12378", "A0A0R4"}
WormBaseCodes == {"WBGene1"}

\* pat occurs in s at position i
OccursAt(s, pat, i) ==
    /\ i + Len(pat) - 1 <= Len(s)
    /\ \A j \in DOMAIN pat : s[i + j - 1] = pat[j]

\* pat in s
Contains(s, pat) == \E i \in DOMAIN s : OccursAt(s, pat, i)

\* s.replace(old, new)
RECURSIVE Replace(_, _, _)
Replace(s, old, new) ==
    IF s = <<>> THEN <<>>
    ELSE IF OccursAt(s, old, 1) THEN new \o Replace(SubSeq(s, Len(old) + 1, Len(s)), old, new)
    ELSE <<Head(s)>> \o Replace(Tail(s), old, new)

\* s.split(sep)[-1], sep being one piece
AfterLast(s, sep) ==
    LET hits == {i \in DOMAIN s : s[i] = sep}
    IN  IF hits = {} THEN s
        ELSE SubSeq(s, (CHOOSE i \in hits : \A j \in hits : j <= i) + 1, Len(s))

\* re.search of a pattern that is the literal pieces lit followed by one group
\* matching a piece of the class cls: the positions of the group
GroupHits(s, lit, cls) ==
    {i \in DOMAIN s : i > Len(lit) /\ OccursAt(s, lit, i - Len(lit)) /\ s[i] \in cls}

FirstOf(hits) == CHOOSE i \in hits : \A j \in hits : i <= j

\* re.search(r'purl\.obolibrary\.org/obo/([A-Z]+)_(\d+)', iri): the positions
\* of the first group
OboHits(s) ==
    {i \in DOMAIN s :
        /\ i > 1 /\ i + 2 <= Len(s)
        /\ s[i - 1] = Obo
        /\ s[i] \in UpperWords
        /\ s[i + 1] = "_"
        /\ s[i + 2] \in DigitCodes}

Converted(key, value) == [value |-> value, counted |-> key, unknown_iris |-> {}]

\* convert_iri_to_curie on a new converter: the value returned, the key of
\* stats['iri_conversions'] that was incremented, and unknown_iris afterwards
ConvertIriToCurie(iri) ==
    IF Contains(iri, <<Obo, "CHEBI", "_">>)
    THEN Converted("CHEBI", Replace(iri, <<"http://", Obo, "CHEBI", "_">>, <<"CHEBI", ":">>))
    ELSE IF Contains(iri, <<"id.nlm.nih.gov/mesh/">>)
    THEN Converted("MESH", Replace(iri, <<"http://", "id.nlm.nih.gov/mesh/">>, <<"MESH", ":">>))
    ELSE IF OboHits(iri) # {}
    THEN LET i == FirstOf(OboHits(iri)) IN Converted(iri[i], <<iri[i], ":", iri[i + 2]>>)
    ELSE IF GroupHits(iri, <<Obo, "NCBITaxon", "_">>, DigitCodes) # {}
    THEN Converted("NCBITaxon",
             <<"NCBITaxon", ":", iri[FirstOf(GroupHits(iri, <<Obo, "NCBITaxon", "_">>, DigitCodes))]>>)
    ELSE IF GroupHits(iri, <<Obo, "NCIT", "_">>, NcitCodes) # {}
    THEN Converted("NCIT", <<"NCIT", ":", iri[FirstOf(GroupHits(iri, <<Obo, "NCIT", "_">>, NcitCodes))]>>)
    ELSE IF GroupHits(iri, <<Obo, "PR", "_">>, UpperDigitCodes) # {}
    THEN Converted("PR", <<"PR", ":", iri[FirstOf(GroupHits(iri, <<Obo, "PR", "_">>, UpperDigitCodes))]>>)
    ELSE IF Contains(iri, <<"dictybase.org", "/gene/">>)
    THEN Converted("dictyBase", <<"dictyBase", ":">> \o AfterLast(iri, "/gene/"))
    ELSE IF Contains(iri, <<"flybase.org", "/reports/">>)
    THEN Converted("FB", <<"FB", ":">> \o AfterLast(iri, "/reports/"))
    ELSE IF Contains(iri, <<"identifiers.org", "/hgnc/">>)
    THEN Converted("HGNC", <<"HGNC", ":">> \o AfterLast(iri, "/hgnc/"))
    ELSE IF GroupHits(iri, <<"genenames.org/cgi-bin/gene_symbol_report?hgnc_id=">>, DigitCodes) # {}
    THEN Converted("HGNC",
             <<"HGNC", ":", iri[FirstOf(GroupHits(iri,
                  <<"genenames.org/cgi-bin/gene_symbol_report?hgnc_id=">>, DigitCodes))]>>)
    ELSE IF GroupHits(iri, <<"genenames.org/data/gene-symbol-report/#!/hgnc_id/HGNC:">>, DigitCodes) # {}
    THEN Converted("HGNC",
             <<"HGNC", ":", iri[FirstOf(GroupHits(iri,
                  <<"genenames.org/data/gene-symbol-report/#!/hgnc_id/HGNC:">>, DigitCodes))]>>)
    ELSE IF GroupHits(iri, <<"rgd.mcw.edu/rgdweb/report/gene/main.html?id=">>, DigitCodes) # {}
    THEN Converted("RGD",
             <<"RGD", ":", iri[FirstOf(GroupHits(iri,
                  <<"rgd.mcw.edu/rgdweb/report/gene/main.html?id=">>, DigitCodes))]>>)
    ELSE IF Contains(iri, <<"ebi.ac.uk/efo", "/EFO_">>)
    THEN Converted("EFO", <<"EFO", ":">> \o AfterLast(iri, "/EFO_"))
    ELSE IF Contains(iri, <<"informatics.jax.org", "/marker/", "MGI", ":">>)
    THEN Converted("MGI", AfterLast(iri, "/marker/"))
    ELSE IF Contains(iri, <<"ncbi.nlm.nih.gov", "/gene/">>)
    THEN Converted("NCBIGene", <<"NCBIGene", ":">> \o AfterLast(iri, "/gene/"))
    ELSE IF GroupHits(iri, <<"orpha.net/ORDO/Orphanet_">>, DigitCodes) # {}
    THEN Converted("orphanet",
             <<"orphanet", ":", iri[FirstOf(GroupHits(iri, <<"orpha.net/ORDO/Orphanet_">>, DigitCodes))]>>)
    ELSE IF GroupHits(iri, <<"wormbase.org/species/c_elegans", "/gene/">>, WormBaseCodes) # {}
    THEN Converted("WormBase",
             <<"WormBase", ":", iri[FirstOf(GroupHits(iri,
                  <<"wormbase.org/species/c_elegans", "/gene/">>, WormBaseCodes))]>>)
    ELSE IF Contains(iri, <<"yeastgenome.org", "/locus/">>)
    THEN Converted("SGD", <<"SGD", ":">> \o AfterLast(iri, "/locus/"))
    ELSE IF Contains(iri, <<"zfin.org/action/marker", "/view/">>)
    THEN Converted("ZFIN", <<"ZFIN", ":">> \o AfterLast(iri, "/view/"))
    ELSE [value |-> iri, counted |-> "UNKNOWN", unknown_iris |-> {iri}]

\* one call of convert_iri_to_curie
ConvertIri ==
    /\ fn_call.fn = "convert_iri_to_curie"
    /\ ~fn_result.done
    /\ fn_result' = [done |-> TRUE, out |-> ConvertIriToCurie(fn_call.iri)]
    /\ UNCHANGED <<retryVars, cleanerVars, fn_call>>

\* a new converter and any IRI
InitIri ==
    /\ RetryIdle /\ CleanerIdle
    /\ fn_call \in [fn : {"convert_iri_to_curie"}, iri : Iris]
    /\ fn_result = [done |-> FALSE, out |-> Converted("", <<>>)]

NextIri == ConvertIri

\* OmniCorpToSQLiteConverter.convert_iri_to_curie, one call
SpecIri == InitIri /\ [][NextIri]_vars

\* ------------------- merge_normalized_data followed by convert_to_output_format
\* a candidate -> publications dictionary as its items in iteration order
PmidDicts ==
    {d \in SeqsUpTo([curie : Curies, pmids : PmidLists], NumCuries) :
        \A i, j \in DOMAIN d : d[i].curie = d[j].curie => i = j}

\* a candidate -> canonical dictionary
NormalizedMappings == UNION {[S -> Norms] : S \in SUBSET Curies}

\* merge_normalized_data and convert_to_output_format on the two dictionaries
MergeAndConvert ==
    /\ fn_call.fn = "merge_and_convert"
    /\ ~fn_result.done
    /\ fn_result' = [done |-> TRUE,
                     out |-> InMemoryOutput(fn_call.curie_to_pmids, fn_call.normalized_mapping)]
    /\ UNCHANGED <<retryVars, cleanerVars, fn_call>>

\* any two input dictionaries
InitMerge ==
    /\ RetryIdle /\ CleanerIdle
    /\ fn_call \in [fn : {"merge_and_convert"}, curie_to_pmids : PmidDicts,
                     normalized_mapping : NormalizedMappings]
    /\ fn_result = [done |-> FALSE, out |-> <<>>]

NextMerge == MergeAndConvert

\* the in-memory merge and formatting, one call
SpecMerge == InitMerge /\ [][NextMerge]_vars

\* ------------------------------- one CurieNormalizer instance and its caller
\* The caller calls normalize_curies, the accessors and the clear methods in
\* any order, and holds the object the latest accessor call returned.  That
\* object is either an object of its own (alias "none", contents val) or the
\* very dictionary the normalizer keeps (alias "failed" or "biolink").
NoObject == [held |-> "nothing", alias |-> "none", val |-> EmptyDict]

\* mutant: the dictionary itself is returned
DictItself(owner, d) == [held |-> owner, alias |-> owner, val |-> d]

\* return self.<owner>.copy()
DictCopy(owner, d) == [held |-> owner, alias |-> "none", val |-> d]

\* the contents of the object the caller holds
Deref(h) ==
    IF h.alias = "failed" THEN failed
    ELSE IF h.alias = "biolink" THEN biolink
    ELSE h.val

\* the caller stores new contents into the object it holds
CallerWrites(newval) ==
    IF fn_result.alias = "failed"
    THEN failed' = newval /\ UNCHANGED <<biolink, fn_result>>
    ELSE IF fn_result.alias = "biolink"
    THEN biolink' = newval /\ UNCHANGED <<failed, fn_result>>
    ELSE fn_result' = [fn_result EXCEPT !.val = newval] /\ UNCHANGED <<failed, biolink>>

\* fake_pmid_data = {curie: [1] for curie in batch}
FakePmidData(cs) == [c \in Range(cs) |-> <<1>>]

\* one call of normalize_curies on the instance, for a batch of one candidate
\* (any candidate, also one that an earlier call was given)
NormalizeCuriesCall ==
    /\ kind = "instance"
    /\ \E c \in Curies :
         LET batch == <<c>>
             pmid_data == FakePmidData(batch)
         IN  \E o \in ApiOutcomes(batch, service) :
               LET r == IF o.raised
                        THEN NormalizeCuriesRaised(batch, pmid_data, failed)
                        ELSE NormalizeCuriesOk(batch, pmid_data, o.result, failed)
               IN  /\ mapping' = r.mapping
                   /\ failed' = r.failed
                   /\ biolink' = IF o.raised THEN biolink
                                  ELSE StoreBiolinkClasses(biolink, batch, o.result)
    /\ fn_call' = [fn |-> "normalize_curies"]
    /\ UNCHANGED <<retryVars, sourceVars, pc, all_curies, batch_i, api_calls, pass2Vars,
                   fileVars, fn_result>>

\* self.failed_normalizations.clear()
ClearFailedNormalizations ==
    /\ kind = "instance"
    /\ failed' = EmptyDict
    /\ fn_call' = [fn |-> "clear_failed_normalizations"]
    /\ UNCHANGED <<retryVars, sourceVars, pc, all_curies, batch_i, api_calls, mapping, biolink,
                   pass2Vars, fileVars, fn_result>>

\* self.normalized_biolink_classes.clear()
ClearBiolinkClasses ==
    /\ kind = "instance"
    /\ biolink' = EmptyDict
    /\ fn_call' = [fn |-> "clear_biolink_classes"]
    /\ UNCHANGED <<retryVars, sourceVars, pc, all_curies, batch_i, api_calls, mapping, failed,
                   pass2Vars, fileVars, fn_result>>

\* get_failed_normalizations_dict
GetFailedNormalizationsDict ==
    /\ kind = "instance"
    /\ fn_result' = DictCopy("failed", failed)
    /\ fn_call' = [fn |-> "get_failed_normalizations_dict"]
    /\ UNCHANGED <<retryVars, cleanerVars>>

\* get_biolink_classes
GetBiolinkClasses ==
    /\ kind = "instance"
    /\ fn_result' = DictCopy("biolink", biolink)
    /\ fn_call' = [fn |-> "get_biolink_classes"]
    /\ UNCHANGED <<retryVars, cleanerVars>>

\* the keys and the value the caller may add to a returned dictionary
CallerKeys(held) == IF held = "failed" THEN Curies ELSE Norms

CallerValue(held) == IF held = "failed" THEN <<1>> ELSE <<"biolink:Gene">>

\* the caller adds a key to the dictionary it was given: d[k] = v
CallerAddsKey ==
    /\ kind = "instance"
    /\ fn_result.held # "nothing"
    /\ \E k \in CallerKeys(fn_result.held) \ DOMAIN Deref(fn_result) :
         CallerWrites(DictUpdate(Deref(fn_result), [x \in {k} |-> CallerValue(fn_result.held)]))
    /\ fn_call' = [fn |-> "caller_adds_key"]
    /\ UNCHANGED <<retryVars, sourceVars, pc, all_curies, batch_i, api_calls, mapping,
                   pass2Vars, fileVars>>

\* the caller removes a key from the dictionary it was given: del d[k]
CallerRemovesKey ==
    /\ kind = "instance"
    /\ fn_result.held # "nothing"
    /\ \E k \in DOMAIN Deref(fn_result) : CallerWrites(DictRemove(Deref(fn_result), k))
    /\ fn_call' = [fn |-> "caller_removes_key"]
    /\ UNCHANGED <<retryVars, sourceVars, pc, all_curies, batch_i, api_calls, mapping,
                   pass2Vars, fileVars>>

\* a new CurieNormalizer in the hands of a caller
InitInstance ==
    /\ RetryIdle
    /\ kind = "instance" /\ pc = "idle" /\ table = <<>> /\ lines = <<>>
    /\ batch_size = BatchSize /\ service = ConsistentService
    /\ NormalizerFresh
    /\ fn_call = [fn |-> "none"]
    /\ fn_result = NoObject

NextInstance ==
    \/ NormalizeCuriesCall
    \/ ClearFailedNormalizations
    \/ ClearBiolinkClasses
    \/ GetFailedNormalizationsDict
    \/ GetBiolinkClasses
    \/ CallerAddsKey
    \/ CallerRemovesKey

\* any sequence of calls on one CurieNormalizer instance
SpecInstance == InitInstance /\ [][NextInstance]_vars

\* --------------------------- SQLiteCleaner.extract_data_in_chunks on its own
\* mutant: the scan is taken to be over when a chunk holds no usable row
ScanEndsOnEmptyChunk(rows, chunk_data) == chunk_data = <<>>

\* if not rows: break
ScanEnds(rows, chunk_data) == rows = <<>>

\* one iteration of the while loop that yields chunk_data
ExtractYieldsChunk ==
    /\ fn_call.fn = "extract_data_in_chunks"
    /\ ~fn_result.done
    /\ LET rows == ChunkRows(fn_call.table, fn_result.offset, fn_call.chunk_size)
       IN  /\ ~ScanEnds(rows, ChunkData(rows))
           /\ fn_result' = [done |-> FALSE,
                            offset |-> fn_result.offset + fn_call.chunk_size,
                            chunks |-> Append(fn_result.chunks, ChunkData(rows))]
    /\ UNCHANGED <<retryVars, cleanerVars, fn_call>>

\* the iteration that finds no row: break, conn.close(), the generator returns
ExtractEnds ==
    /\ fn_call.fn = "extract_data_in_chunks"
    /\ ~fn_result.done
    /\ LET rows == ChunkRows(fn_call.table, fn_result.offset, fn_call.chunk_size)
       IN  ScanEnds(rows, ChunkData(rows))
    /\ fn_result' = [fn_result EXCEPT !.done = TRUE]
    /\ UNCHANGED <<retryVars, cleanerVars, fn_call>>

\* any table and any chunk size from 1 to one more than the largest table
InitChunks ==
    /\ RetryIdle /\ CleanerIdle
    /\ fn_call \in [fn : {"extract_data_in_chunks"}, table : Tables,
                     chunk_size : 1..(NumCuries + 1)]
    /\ fn_result = [done |-> FALSE, offset |-> 0, chunks |-> <<>>]

NextChunks == ExtractYieldsChunk \/ ExtractEnds

\* extract_data_in_chunks consumed to its end
SpecChunks == InitChunks /\ [][NextChunks]_vars

\* the same, the consumer always asking for the next chunk
SpecChunksFair == SpecChunks /\ WF_vars(NextChunks)

\* ------------------------------ pass2_aggregate_to_sqlite of the converters
\* (PubTatorToSQLiteConverter and OmniCorpToSQLiteConverter: the same loop)
\* The file read is a sequence of "curie<TAB>pmid" lines, in any order here.
MaxPairs == 4

PairStreams == SeqsUpTo([curie : Curies, pmid : Pmids], MaxPairs)

\* current_curie = None
NoCurrent == 0

\* cursor.execute('INSERT INTO curie_to_pmids ...'): curie is the PRIMARY KEY,
\* a second row for a curie raises sqlite3.IntegrityError
InsertRow(st, curie, pmids) ==
    IF \E k \in DOMAIN st.rows : st.rows[k].curie = curie
    THEN [st EXCEPT !.crashed = TRUE]
    ELSE [st EXCEPT !.rows = Append(st.rows, [curie |-> curie, pmids |-> pmids]),
                    !.records_written = st.records_written + 1]

\* json.dumps(sorted(set(current_pmids)))
PmidsJson(current_pmids) == SortedSeq(Range(current_pmids))

\* the body of the loop over the lines of the sorted file, for one line
AggregateLine(st, pair) ==
    IF pair.curie = st.current_curie
    THEN [st EXCEPT !.current_pmids = Append(st.current_pmids, pair.pmid)]
    ELSE LET w == IF st.current_curie # NoCurrent
                  THEN InsertRow(st, st.current_curie, PmidsJson(st.current_pmids))
                  ELSE st
         IN  IF w.crashed THEN w
             ELSE [w EXCEPT !.current_curie = pair.curie, !.current_pmids = <<pair.pmid>>]

\* mutant: the group still open at the end of the file is not written
FlushLastForgotten(st) == st

\* "Don't forget the last CURIE": if current_curie is not None: INSERT
FlushLast(st) ==
    IF st.current_curie # NoCurrent
    THEN InsertRow(st, st.current_curie, PmidsJson(st.current_pmids))
    ELSE st

\* one iteration of "for line_num, line in enumerate(f, 1)"
AggregateReadsLine ==
    /\ fn_call.fn = "pass2_aggregate_to_sqlite"
    /\ ~fn_result.done /\ ~fn_result.crashed
    /\ fn_result.line_idx < Len(fn_call.sorted_file)
    /\ fn_result' = [AggregateLine(fn_result, fn_call.sorted_file[fn_result.line_idx + 1])
                        EXCEPT !.line_idx = fn_result.line_idx + 1]
    /\ UNCHANGED <<retryVars, cleanerVars, fn_call>>

\* end of the file: the last group is written and the transaction committed
AggregateEndOfFile ==
    /\ fn_call.fn = "pass2_aggregate_to_sqlite"
    /\ ~fn_result.done /\ ~fn_result.crashed
    /\ fn_result.line_idx >= Len(fn_call.sorted_file)
    /\ LET w == FlushLast(fn_result)
       IN  fn_result' = IF w.crashed THEN w ELSE [w EXCEPT !.done = TRUE]
    /\ UNCHANGED <<retryVars, cleanerVars, fn_call>>

\* a new output database and any file of pairs
InitAggregate ==
    /\ RetryIdle /\ CleanerIdle
    /\ fn_call \in [fn : {"pass2_aggregate_to_sqlite"}, sorted_file : PairStreams]
    /\ fn_result = [line_idx |-> 0, current_curie |-> NoCurrent, current_pmids |-> <<>>,
                    rows |-> <<>>, records_written |-> 0, done |-> FALSE, crashed |-> FALSE]

NextAggregate == AggregateReadsLine \/ AggregateEndOfFile

\* pass2_aggregate_to_sqlite, one call
SpecAggregate == InitAggregate /\ [][NextAggregate]_vars

\* ------------------------------- OmniCorpCleaner.clean (non-streaming path)
\* process_all_files returns {curie: list(pmids)} with pmids a non-empty set:
\* the lists hold no PMID twice
OmniCorpDicts ==
    {d \in PmidDicts : \A i \in DOMAIN d : d[i].pmids # <<>> /\ (\A a, b \in DOMAIN d[i].pmids : d[i].pmids[a] = d[i].pmids[b] => a = b)}

\* the dictionary given as its item sequence, as a function
AsDict(c2p) == [c \in {c2p[i].curie : i \in DOMAIN c2p} |->
                   c2p[CHOOSE i \in DOMAIN c2p : c2p[i].curie = c].pmids]

\* get_failed_normalizations: list(self.failed_normalizations.keys())
GetFailedNormalizations(fm) == [type |-> "list", keys |-> DOMAIN fm]

\* convert_failed_to_output_format: failed_normalizations.items() raises
\* AttributeError on anything but a dictionary; on a dictionary the result is
\* the list of {"curie", "publications"} records sorted by curie
ConvertFailedToOutputFormat(arg) ==
    IF arg.type # "dict" THEN [raised |-> TRUE, data |-> <<>>]
    ELSE [raised |-> FALSE,
          data |-> LET keys == SortedSeq(arg.keys)
                   IN  [i \in 1..Len(keys) |-> [type |-> "dict", curie |-> keys[i]]]]

\* OmniCorpCleaner.write_failed_normalizations: the conversion, then
\* open(output_path, 'w') and f.write(curie + '\n') for each element, which
\* raises TypeError for an element that is not a string
OmniCorpWriteFailedNormalizations(ff, fm) ==
    LET conv == ConvertFailedToOutputFormat(GetFailedNormalizations(fm))
    IN  IF conv.raised THEN [raised |-> TRUE, file |-> ff]
        ELSE IF conv.data # <<>>
        THEN [raised |-> TRUE, file |-> [exists |-> TRUE, content |-> <<>>]]
        ELSE [raised |-> FALSE, file |-> [exists |-> TRUE, content |-> <<>>]]

\* Step 1: process_all_files; "if not curie_to_pmids: return"
OmniCorpProcessAllFiles ==
    /\ kind = "omnicorp"
    /\ pc = "init"
    /\ IF fn_call.curie_to_pmids = <<>>
       THEN pc' = "aborted" /\ UNCHANGED all_curies
       ELSE pc' = "normalize" /\ all_curies' = Pass1Curies(fn_call.curie_to_pmids)
    /\ batch_i' = 0
    /\ UNCHANGED <<retryVars, pureVars, sourceVars, api_calls, mapping, failed, biolink,
                   pass2Vars, fileVars>>

\* Step 2: one iteration of normalize_all_curies(curie_to_pmids)
OmniCorpNormalizeBatch ==
    /\ kind = "omnicorp"
    /\ pc = "normalize"
    /\ batch_i < Len(all_curies)
    /\ LET batch == BatchAt(all_curies, batch_i, batch_size)
           pmid_data == AsDict(fn_call.curie_to_pmids)
       IN  \E o \in ApiOutcomes(batch, service) :
             LET r == IF o.raised
                      THEN NormalizeCuriesRaised(batch, pmid_data, failed)
                      ELSE NormalizeCuriesOk(batch, pmid_data, o.result, failed)
             IN  /\ mapping' = DictUpdate(mapping, r.mapping)
                 /\ failed' = r.failed
                 /\ biolink' = IF o.raised THEN biolink
                                ELSE StoreBiolinkClasses(biolink, batch, o.result)
                 /\ api_calls' = Append(api_calls, [batch |-> batch, raised |-> o.raised,
                                                    ids |-> AnswerIds(batch, o.result),
                                                    types |-> AnswerTypes(batch, o.result)])
    /\ batch_i' = batch_i + batch_size
    /\ UNCHANGED <<retryVars, pureVars, sourceVars, pc, all_curies, pass2Vars, fileVars>>

\* Steps 3 to 5: merge_normalized_data, convert_to_output_format, write_jsonlines
OmniCorpWriteOutput ==
    /\ kind = "omnicorp"
    /\ Normalized
    /\ output_opened' = TRUE
    /\ output' = InMemoryOutput(fn_call.curie_to_pmids, mapping)
    /\ pc' = "side_channels"
    /\ UNCHANGED <<retryVars, pureVars, sourceVars, normVars, n2o, tracker, records_written,
                   offset, chunk, line_idx, fileVars>>

\* Steps 6 and 7: write_failed_normalizations, then write_biolink_classes if
\* there are classes, then the return; an exception of Step 6 ends the run
OmniCorpWriteSideChannels ==
    /\ kind = "omnicorp"
    /\ pc = "side_channels"
    /\ LET w == OmniCorpWriteFailedNormalizations(failed_file, failed)
       IN  /\ failed_file' = w.file
           /\ IF w.raised
              THEN pc' = "crashed" /\ UNCHANGED biolink_file
              ELSE pc' = "done" /\ biolink_file' = BiolinkFileAfter(biolink_file, biolink)
    /\ UNCHANGED <<retryVars, pureVars, sourceVars, normVars, pass2Vars>>

\* a new OmniCorpCleaner and what its input files hold
InitOmniCorp ==
    /\ RetryIdle
    /\ kind = "omnicorp" /\ table = <<>> /\ lines = <<>>
    /\ CleanerFresh
    /\ fn_call \in [fn : {"omnicorp_clean"}, curie_to_pmids : OmniCorpDicts]
    /\ fn_result = [done |-> FALSE]

NextOmniCorp ==
    \/ OmniCorpProcessAllFiles
    \/ OmniCorpNormalizeBatch
    \/ OmniCorpWriteOutput
    \/ OmniCorpWriteSideChannels

\* OmniCorpCleaner.clean
SpecOmniCorp == InitOmniCorp /\ [][NextOmniCorp]_vars

\* -------------- convert_concept_id_to_curie called on its own, both classes
NotCalled == [done |-> FALSE, value |-> NoCurie]

\* PubTatorCleaner.convert_concept_id_to_curie(concept_id, entity_type)
CleanerConverts ==
    /\ fn_call.fn = "convert_concept_id_to_curie"
    /\ ~fn_result.cleaner.done
    /\ fn_result' = [fn_result EXCEPT !.cleaner =
           [done |-> TRUE,
            value |-> ConvertConceptIdToCurie(fn_call.concept_id, fn_call.entity_type, "CLO")]]
    /\ UNCHANGED <<retryVars, cleanerVars, fn_call>>

\* PubTatorToSQLiteConverter.convert_concept_id_to_curie(concept_id, entity_type)
ConverterConverts ==
    /\ fn_call.fn = "convert_concept_id_to_curie"
    /\ ~fn_result.converter.done
    /\ fn_result' = [fn_result EXCEPT !.converter =
           [done |-> TRUE,
            value |-> ConvertConceptIdToCurie(fn_call.concept_id, fn_call.entity_type,
                                               "Cellosaurus")]]
    /\ UNCHANGED <<retryVars, cleanerVars, fn_call>>

\* any concept ID and entity type, given to both functions
InitConvert ==
    /\ RetryIdle /\ CleanerIdle
    /\ fn_call \in [fn : {"convert_concept_id_to_curie"}, concept_id : ConceptIds,
                     entity_type : EntityTypes]
    /\ fn_result = [cleaner |-> NotCalled, converter |-> NotCalled]

NextConvert == CleanerConverts \/ ConverterConverts

\* the two implementations of convert_concept_id_to_curie, one call each
SpecConvert == InitConvert /\ [][NextConvert]_vars

\* ------------------ several SQLiteCleaner runs into one output directory
MaxRuns == 2

\* A further run with the same output_dir and dataset_name: a new SQLiteCleaner
\* (and with it a new CurieNormalizer) on any input table; the files that the
\* earlier runs left in the directory are still there.
StartNextRun ==
    /\ kind = "sqlite"
    /\ pc \in {"done", "aborted"}
    /\ fn_call.fn = "clean"
    /\ fn_call.run < MaxRuns
    /\ fn_call' = [fn_call EXCEPT !.run = fn_call.run + 1]
    /\ table' \in Tables
    /\ pc' = "init"
    /\ all_curies' = <<>> /\ batch_i' = 0 /\ api_calls' = <<>>
    /\ mapping' = EmptyDict /\ failed' = EmptyDict /\ biolink' = EmptyDict
    /\ n2o' = EmptyDict /\ tracker' = EmptyDict
    /\ output_opened' = FALSE /\ records_written' = 0
    /\ offset' = 0 /\ chunk' = <<>> /\ line_idx' = 0
    /\ UNCHANGED <<retryVars, kind, lines, batch_size, service, output, fileVars, fn_result>>

\* the first run, into an empty output directory
InitRuns ==
    /\ RetryIdle
    /\ kind = "sqlite" /\ table \in Tables /\ lines = <<>>
    /\ CleanerFresh
    /\ fn_call = [fn |-> "clean", run |-> 1]
    /\ fn_result = [done |-> FALSE]

NextRuns == NextSqlite \/ StartNextRun

\* SQLiteCleaner.clean, run after run into the same output directory
SpecRuns == InitRuns /\ [][NextRuns]_vars

\* ================================================================= claims
\* a record as (canonical identifier, original_curies set, publications set)
RecordTriples(out) ==
    {[curie |-> out[i].curie,
      originals |-> Range(out[i].original_curies),
      publications |-> Range(out[i].publications)] : i \in DOMAIN out}

StrictlyAscending(s) == \A i, j \in DOMAIN s : i < j => s[i] < s[j]

NoDuplicates(s) == \A i, j \in DOMAIN s : s[i] = s[j] => i = j

\* the publications the table lists for the candidates cs
TablePmids(cs) ==
    UNION {Range(table[i].pmids.val) : i \in {j \in DOMAIN table : table[j].curie \in cs}}

\* the candidates the mapping sends to the canonical identifier n
MappedTo(n) == {c \in DOMAIN mapping : mapping[c] = n}

\* C1: in SQLiteCleaner.clean, the record emitted for a canonical identifier
\* lists as original_curies exactly the candidates the mapping sends to it, in
\* sorted order, and as publications the union of those candidates' publication
\* lists, PMID-prefixed, each publication once.
C1_MergeCompleteness ==
    \A k \in DOMAIN output :
        LET r == output[k]
            cands == MappedTo(r.curie)
        IN  /\ Range(r.original_curies) = cands
            /\ StrictlyAscending(r.original_curies)
            /\ Range(r.publications) = {<<"PMID:", p>> : p \in TablePmids(cands)}
            /\ NoDuplicates(r.publications)

\* a finished run that merged two candidates sharing a publication, each also
\* contributing to a union larger than the shared part
C1_Witness ==
    /\ pc = "done"
    /\ \E k \in DOMAIN output :
         /\ Len(output[k].original_curies) >= 2
         /\ Len(output[k].publications) >= 2
         /\ \E i, j \in DOMAIN table :
              /\ i # j
              /\ {table[i].curie, table[j].curie} \subseteq MappedTo(output[k].curie)
              /\ Range(table[i].pmids.val) \cap Range(table[j].pmids.val) # {}

\* the publications the PubTator file pairs with the candidates cs
LinePmids(cs) ==
    {lines[i].pmid : i \in {j \in DOMAIN lines : lines[j].kind = "ok" /\ lines[j].curie \in cs}}

\* C2: every record emitted by process_file_streaming_chunked carries exactly
\* the publications that the source pairs with any of its original_curies.
C2_RecordInvariant ==
    \A k \in DOMAIN output :
        Range(output[k].publications) =
            {<<"PMID:", p>> : p \in LinePmids(Range(output[k].original_curies))}

\* C3: at the end of a SQLiteCleaner run the streamed records equal, as a set
\* of (canonical, original_curies set, publications set), the records the
\* in-memory merge produces from the same extracted data and the same mapping.
C3_StreamingEqualsInMemory ==
    pc = "done" =>
        RecordTriples(output) = RecordTriples(InMemoryOutput(ChunkData(table), mapping))

\* the candidates the Pass 2 scan yields
ScannedCandidates ==
    IF kind = "sqlite"
    THEN {table[i].curie : i \in {j \in DOMAIN table : table[j].pmids.kind = "list"}}
    ELSE {lines[i].curie : i \in {j \in DOMAIN lines : lines[j].kind = "ok"}}

RecordsFor(n) == {k \in DOMAIN output : output[k].curie = n}

\* C4: no canonical identifier has two records in the output, and once the
\* Pass 2 scan has ended every canonical identifier whose expected originals
\* all occur in the scan has exactly one record.
C4_EmittedOnce ==
    /\ \A n \in Norms : Cardinality(RecordsFor(n)) <= 1
    /\ pc \in {"finalize", "done"} =>
         \A n \in {mapping[c] : c \in DOMAIN mapping} :
             MappedTo(n) \subseteq ScannedCandidates => Cardinality(RecordsFor(n)) = 1

\* a finished PubTator run whose file names a mapped candidate on two lines,
\* and whose output holds the one record of that candidate's canonical identifier
C4_Witness ==
    /\ kind = "pubtator"
    /\ pc = "done"
    /\ \E i, j \in DOMAIN lines :
         /\ i < j
         /\ lines[i].kind = "ok" /\ lines[j].kind = "ok"
         /\ lines[i].curie = lines[j].curie
         /\ lines[i].curie \in DOMAIN mapping
         /\ Cardinality(RecordsFor(mapping[lines[i].curie])) = 1

\* the Pass 2 step that handles a row whose candidate is not in the mapping
SkipsUnmappedRow ==
    /\ pc = "pass2"
    /\ chunk # <<>>
    /\ Head(chunk).curie \notin DOMAIN mapping
    /\ chunk' = Tail(chunk)

C5_State ==
    /\ \A k \in DOMAIN output : Range(output[k].original_curies) \subseteq DOMAIN mapping
    /\ pc = "done" =>
         LET mem == InMemoryOutput(ChunkData(table), mapping)
         IN  \A k \in DOMAIN mem : Range(mem[k].original_curies) \subseteq DOMAIN mapping

\* C5: no candidate absent from the mapping appears in original_curies of a
\* record of the streaming output or of the in-memory merge, and the Pass 2
\* step for a row whose candidate is absent from the mapping raises nothing and
\* leaves the tracker, the output and the record counter unchanged.
C5_FailureExclusion ==
    /\ []C5_State
    /\ [][SkipsUnmappedRow =>
            /\ pc' = "pass2"
            /\ UNCHANGED <<tracker, output, records_written, mapping, failed>>]_vars

\* Pass 2 has skipped a row of a failed candidate and later emitted a record
C5_Witness ==
    /\ pc = "done"
    /\ output # <<>>
    /\ \E i \in DOMAIN table :
         /\ table[i].pmids.kind = "list"
         /\ table[i].pmids.val # <<>>
         /\ table[i].curie \notin DOMAIN mapping
         /\ table[i].curie \in DOMAIN failed

\* the rearrangements of a sequence
SeqPermutations(s) ==
    {[i \in 1..Len(s) |-> s[f[i]]] : f \in Orderings(1..Len(s))}

\* C6: every permutation of the PubTator lines yields the same set of records
\* as the order actually scanned.
C6_OrderIndependent ==
    (kind = "pubtator" /\ pc = "done") =>
        \A p \in SeqPermutations(lines) :
            RecordTriples(PubTatorPass2(mapping, p).output) = RecordTriples(output)

\* C7: on an unchanged table, the candidates submitted in Pass 1 are the
\* candidates Pass 2 yields, and at end-of-source the progress tracker is empty.
C7_SameExtraction ==
    pc \in {"finalize", "done"} =>
        /\ Range(Pass1Curies(table)) = ScannedCandidates
        /\ DOMAIN tracker = {}

Terminated == rpc \in {"returned", "raised"}

C8_State ==
    /\ Len(outcomes) <= max_retries
    /\ \A i \in DOMAIN outcomes :
         outcomes[i] = "ok" => (i = Len(outcomes) /\ rpc = "returned")
    /\ rpc = "returned" => (outcomes # <<>> /\ outcomes[Len(outcomes)] = "ok")
    /\ rpc = "raised" =>
         (Len(outcomes) = max_retries /\ \A i \in DOMAIN outcomes : outcomes[i] # "ok")
    /\ (outcomes # <<>> /\ outcomes[Len(outcomes)] # "ok" /\ Len(outcomes) < max_retries)
         => rpc \in {"backoff", "try"}

\* C8 (as amended): post_with_retry terminates; it sends at most max_retries
\* POST requests; it returns exactly when a request succeeds, which is then the
\* last request sent; a failed request is followed by another one while fewer
\* than max_retries have been sent; it raises exactly when max_retries requests
\* (the first attempt and max_retries - 1 retries) have been sent and all failed.
C8_BoundedRetry == []C8_State /\ <>Terminated

\* C8 (as claimed): the call raises only after max_retries retries, that is,
\* max_retries requests after the first one, have all failed.
C8_RaisesAfterMaxRetriesRetries ==
    (rpc = "raised" /\ max_retries >= 1) => Len(outcomes) - 1 = max_retries

\* a call that returned on its third request, after a timeout and an HTTP error
C8_Witness ==
    /\ rpc = "returned"
    /\ Len(outcomes) >= 3
    /\ outcomes[1] = "timeout"
    /\ outcomes[2] = "http_error"

\* C9: the sleep after failed attempt a is delay + jitter with
\* delay = min(base_delay * 2^a, max_delay) and 0 <= jitter <= delay / 10; the
\* delays never decrease, never exceed max_delay, and no sleep exceeds
\* 1.1 * max_delay.
C9_Backoff ==
    /\ \A i \in DOMAIN sleeps :
         LET s == sleeps[i]
             raw == base_delay * (2 ^ (i - 1))
         IN  /\ s.attempt = i - 1
             /\ s.delay = IF raw <= max_delay THEN raw ELSE max_delay
             /\ 0 <= s.jitter
             /\ 10 * s.jitter <= s.delay
             /\ s.delay <= max_delay
             /\ 10 * (s.delay + s.jitter) <= 11 * max_delay
    /\ \A i, j \in DOMAIN sleeps : i < j => sleeps[i].delay <= sleeps[j].delay

\* two sleeps, the second one cut down to max_delay and with a positive jitter
C9_Witness ==
    /\ Len(sleeps) >= 2
    /\ base_delay * 2 > max_delay
    /\ sleeps[2].delay = max_delay
    /\ sleeps[2].jitter > 0

\* C10: while normalize_all_curies runs, the batches submitted so far are the
\* consecutive slices of the candidate list; the candidates of a batch whose
\* call exhausted its retries are all in the failure set and none is in the
\* mapping; the identifiers a successful batch returned are in the mapping; and
\* when the loop ends every slice has been submitted, whatever batches failed.
C10_BatchFailureNotFatal ==
    pc = "normalize" =>
        /\ \A k \in DOMAIN api_calls :
             LET call == api_calls[k]
                 start == (k - 1) * BatchSize
             IN  /\ start < Len(all_curies)
                 /\ call.batch = [i \in 1..Min(BatchSize, Len(all_curies) - start) |->
                                     all_curies[start + i]]
                 /\ call.raised =>
                      \A c \in Range(call.batch) : c \in DOMAIN failed /\ c \notin DOMAIN mapping
                 /\ ~call.raised =>
                      \A c \in Range(call.batch) :
                          call.ids[c] # NoId => (c \in DOMAIN mapping /\ mapping[c] = call.ids[c])
        /\ Normalized => UNION {Range(api_calls[k].batch) : k \in DOMAIN api_calls}
                            = Range(all_curies)

\* the first batch exhausted its retries and a later batch was mapped
C10_Witness ==
    /\ Normalized
    /\ Len(api_calls) >= 2
    /\ api_calls[1].raised
    /\ ~api_calls[2].raised
    /\ Range(api_calls[2].batch) \cap DOMAIN mapping # {}
    /\ Range(api_calls[1].batch) \subseteq DOMAIN failed

\* the candidates of the call, and what the batches submitted so far answered
Submitted == UNION {Range(api_calls[k].batch) : k \in DOMAIN api_calls}

\* some batch returned a non-empty canonical identifier for c: its call did
\* not fail, and its answer held for c a node with an identifier
GotIdentifier(c) ==
    \E k \in DOMAIN api_calls :
        /\ c \in Range(api_calls[k].batch)
        /\ ~api_calls[k].raised
        /\ api_calls[k].ids[c] # NoId

NormalizeAllDone == kind = "normalizer" /\ batch_i >= Len(all_curies)

\* C11: while normalize_all_curies runs on a new normalizer the keys of the
\* mapping and the failure set are disjoint and together are the candidates
\* submitted so far; a submitted candidate is in the failure set if and only if
\* no batch returned a non-empty canonical identifier for it; and when the call
\* ends the two sets together are the whole input candidate set.
C11_Partition ==
    kind = "normalizer" =>
        /\ DOMAIN mapping \cap DOMAIN failed = {}
        /\ DOMAIN mapping \cup DOMAIN failed = Submitted
        /\ \A c \in Submitted : c \in DOMAIN failed <=> ~GotIdentifier(c)
        /\ \A c \in DOMAIN mapping :
             \E k \in DOMAIN api_calls :
                 c \in Range(api_calls[k].batch) /\ api_calls[k].ids[c] = mapping[c]
        /\ NormalizeAllDone => DOMAIN mapping \cup DOMAIN failed = Range(all_curies)

\* a finished call in which one batch failed and another batch answered with
\* an identifier for one candidate and without one for another
C11_Witness ==
    /\ pc = "returned"
    /\ \E k \in DOMAIN api_calls :
         api_calls[k].raised /\ Range(api_calls[k].batch) \subseteq DOMAIN failed
    /\ \E k \in DOMAIN api_calls :
         /\ ~api_calls[k].raised
         /\ \E c, d \in Range(api_calls[k].batch) :
              /\ c \in DOMAIN mapping
              /\ d \in DOMAIN failed
              /\ api_calls[k].ids[d] = NoId

\* C12: every batch submitted holds between 1 and batch_size candidates, no
\* candidate is submitted twice, and when the call ends ceil(n / batch_size)
\* batches have been submitted and every one of the n candidates is in one.
C12_Batching ==
    kind = "normalizer" =>
        /\ \A k \in DOMAIN api_calls :
             /\ Len(api_calls[k].batch) >= 1
             /\ Len(api_calls[k].batch) <= batch_size
             /\ NoDuplicates(api_calls[k].batch)
             /\ \A j \in DOMAIN api_calls :
                  j # k => Range(api_calls[j].batch) \cap Range(api_calls[k].batch) = {}
        /\ NormalizeAllDone =>
             /\ Len(api_calls) = (Len(all_curies) + batch_size - 1) \div batch_size
             /\ Submitted = Range(all_curies)

\* a finished call whose candidate count is not a multiple of the batch size,
\* so that the last of several batches is a short one
C12_Witness ==
    /\ pc = "returned"
    /\ batch_size >= 2
    /\ Len(all_curies) % batch_size # 0
    /\ Len(api_calls) >= 2
    /\ Len(api_calls[Len(api_calls)].batch) < batch_size

\* the candidates Pass 1 extracts from the source
Pass1Candidates ==
    IF kind = "sqlite" THEN Range(Pass1Curies(table)) ELSE PubTatorPass1Curies(lines)

C13_State ==
    /\ pc = "aborted" =>
         /\ DOMAIN mapping = {}
         /\ ~output_opened
         /\ output = <<>> /\ records_written = 0
         /\ offset = 0 /\ chunk = <<>> /\ line_idx = 0
         /\ n2o = EmptyDict /\ tracker = EmptyDict
    /\ pc \in {"pass2", "finalize", "done"} => DOMAIN mapping # {}

\* C13: a cleaner whose Pass 1 ends with an empty mapping goes to the aborted
\* state in its next step and stays there; in that state the output file has
\* not been opened, no record has been written (the count returned is 0) and
\* the second scan of the source has not started; Pass 2 is only ever entered
\* with a non-empty mapping.
C13_AbortOnEmptyMapping ==
    /\ []C13_State
    /\ [][(Normalized /\ DOMAIN mapping = {}) => pc' = "aborted"]_vars
    /\ [][pc # "aborted"]_vars

\* a run that extracted candidates, had every one of them fail, and aborted
C13_Witness ==
    /\ pc = "aborted"
    /\ Pass1Candidates # {}
    /\ DOMAIN failed = Pass1Candidates

\* C14: when a run that extracted at least one candidate has ended, normally or
\* in the empty-mapping abort, the failure file holds the failed candidates
\* and the type metadata file holds the captured tag lists.
C14_SideChannelsWritten ==
    (pc \in {"done", "aborted"} /\ Pass1Candidates # {}) =>
        /\ DOMAIN failed # {} =>
             (failed_file.exists /\ failed_file.content = SortedSeq(DOMAIN failed))
        /\ DOMAIN biolink # {} =>
             (biolink_file.exists /\ biolink_file.content = biolink)

PhaseSteps ==
    {<<"init", "normalize">>, <<"normalize", "pass2">>, <<"normalize", "aborted">>,
     <<"pass2", "finalize">>, <<"finalize", "done">>}

\* the Pass 2 scan has reached the end of the source
ScanEnded ==
    IF kind = "sqlite"
    THEN offset >= Len(table) /\ chunk = <<>>
    ELSE line_idx >= Len(lines)

C15_State ==
    /\ (output_opened \/ output # <<>>) =>
         /\ pc \in {"pass2", "finalize", "done"}
         /\ Pass1Candidates \subseteq DOMAIN mapping \cup DOMAIN failed
    /\ pc \in {"finalize", "done"} => ScanEnded
    /\ (failed_file.exists \/ biolink_file.exists) => pc = "done"

\* C15: the position of a cleaner run only moves init -> normalize -> pass2 ->
\* finalize -> done, or normalize -> aborted; the output is opened and records
\* are written only in Pass 2, after every Pass 1 candidate has been settled by
\* the normalizer, and the normalizer's results no longer change then; the
\* failure file and the type metadata file are written only by the one step
\* from finalize to done, after the scan has ended, and nothing follows it.
C15_PhaseOrder ==
    /\ []C15_State
    /\ [][pc' # pc => <<pc, pc'>> \in PhaseSteps]_vars
    /\ [][output' # output =>
            (pc = "pass2" /\ pc' = "pass2" /\ UNCHANGED <<mapping, failed, biolink>>)]_vars
    /\ [][(failed_file' # failed_file \/ biolink_file' # biolink_file) =>
            (pc = "finalize" /\ pc' = "done" /\ ScanEnded)]_vars
    /\ [][pc # "done"]_vars

\* a finished run that wrote a record, the failure file and the type metadata
C15_Witness ==
    /\ pc = "done"
    /\ output # <<>>
    /\ failed_file.exists
    /\ biolink_file.exists

\* the places (call, position in its batch) where a non-empty tag list came
\* back for a candidate resolved to the canonical identifier n
TagWriters(n) ==
    {w \in UNION {{<<k, i>> : i \in DOMAIN api_calls[k].batch} : k \in DOMAIN api_calls} :
        LET c == api_calls[w[1]].batch[w[2]]
        IN  /\ ~api_calls[w[1]].raised
            /\ api_calls[w[1]].ids[c] = n
            /\ api_calls[w[1]].types[c] # <<>>}

TagsAt(w) == api_calls[w[1]].types[api_calls[w[1]].batch[w[2]]]

Precedes(v, w) == v[1] < w[1] \/ (v[1] = w[1] /\ v[2] < w[2])

\* C16 (as amended): the tag list stored for a canonical identifier is the
\* non-empty tag list that came back most recently for a candidate resolved to
\* it; an identifier for which none came back has no entry.
C16_LastWriterWins ==
    kind = "normalizer" =>
        \A n \in Norms :
            IF TagWriters(n) = {}
            THEN n \notin DOMAIN biolink
            ELSE /\ n \in DOMAIN biolink
                 /\ \E w \in TagWriters(n) :
                      /\ \A v \in TagWriters(n) : ~Precedes(w, v)
                      /\ biolink[n] = TagsAt(w)

\* C16 (as claimed): the tag list stored for a canonical identifier is the
\* first non-empty one that came back for it, whatever came back later.
C16_FirstWriterWins ==
    kind = "normalizer" =>
        \A n \in DOMAIN biolink :
            \E w \in TagWriters(n) :
                /\ \A v \in TagWriters(n) : ~Precedes(v, w)
                /\ biolink[n] = TagsAt(w)

\* two candidates of different batches resolved to one identifier with
\* different non-empty tag lists, the stored list being the later one
C16_Witness ==
    /\ pc = "returned"
    /\ \E n \in DOMAIN biolink :
         \E v, w \in TagWriters(n) :
             /\ v[1] < w[1]
             /\ TagsAt(v) # TagsAt(w)
             /\ biolink[n] = TagsAt(w)

\* the prefix the rule gives a bare number of each entity type, by its spelling
ExpectedPrefix ==
    [t \in EntityTypes |->
        CASE t \in {"Species", "species"} -> <<"NCBITaxon">>
          [] t = "GENE" -> <<"NCBIGene">>
          [] t = "Disease" -> <<"OMIM">>
          [] t = "chemical" -> <<"UNKNOWN_", "CHEMICAL">>
          [] t = "CellLine" -> <<"UNKNOWN_", "CELLLINE">>]

\* the pairs `pairs` obey the numeric-with-type-context rule for the line
FollowsConceptIdRule(line, pairs) ==
    LET id == line.concept_id
        invalid == id = <<"-">> \/ \A i \in DOMAIN id : id[i] = " "
        colon == \E i \in DOMAIN id : id[i] = ":"
        digits == id # <<>> /\ \A i \in DOMAIN id : id[i] = "1"
    IN  IF ~(line.parts = 5 /\ line.pmid \in Pmids) \/ invalid THEN pairs = <<>>
        ELSE /\ Len(pairs) = 1
             /\ pairs[1].pmid = line.pmid
             /\ colon => pairs[1].curie = id
             /\ (~colon /\ digits) =>
                  pairs[1].curie = ExpectedPrefix[line.entity_type] \o <<":">> \o id

\* C17: for every line, the candidate that Pass 1 and Pass 2 of PubTatorCleaner
\* extract obeys the rule - none for "-" or a blank concept ID, the concept ID
\* itself when it holds a colon, the type's prefix (type compared without
\* regard to case, UNKNOWN_<TYPE> for any other type) before an all-digit
\* concept ID - and the two passes extract the same.
C17_ConceptIdRule ==
    fn_call.fn = "parse_line" =>
        /\ fn_result.pass1.done => FollowsConceptIdRule(fn_call.line, fn_result.pass1.pairs)
        /\ fn_result.pass2.done => FollowsConceptIdRule(fn_call.line, fn_result.pass2.pairs)
        /\ (fn_result.pass1.done /\ fn_result.pass2.done) =>
             fn_result.pass1.pairs = fn_result.pass2.pairs

\* both passes have read a line whose type is spelled in capitals and whose
\* concept ID is a bare number, and have built the NCBIGene candidate
C17_Witness ==
    /\ fn_call.fn = "parse_line"
    /\ fn_call.line.entity_type = "GENE"
    /\ fn_call.line.concept_id = <<"1", "1">>
    /\ fn_result.pass1.done /\ fn_result.pass2.done
    /\ fn_result.pass2.pairs =
         <<[pmid |-> fn_call.line.pmid, curie |-> <<"NCBIGene", ":", "1", "1">>]>>

\* the semicolon-delimited values of a concept-ID field, in order
FieldValues(id) ==
    LET cuts == SortedSeq({0, Len(id) + 1} \cup {i \in DOMAIN id : id[i] = ";"})
    IN  [k \in 1..(Len(cuts) - 1) |-> SubSeq(id, cuts[k] + 1, cuts[k + 1] - 1)]

NonBlankValues(id) ==
    SelectSeq(FieldValues(id), LAMBDA v : \E i \in DOMAIN v : v[i] # " ")

\* one candidate per non-blank value that converts to a candidate, each paired
\* with the line's publication
ExpectedPairs(line, cvcl) ==
    LET conv(v) == ConvertConceptIdToCurie(Strip(v), line.entity_type, cvcl)
        vals == SelectSeq(NonBlankValues(line.concept_id), LAMBDA v : ~conv(v).none)
    IN  [k \in 1..Len(vals) |-> [pmid |-> line.pmid, curie |-> conv(vals[k]).curie]]

SeveralValues(line) ==
    FieldsOk(line) /\ Len(NonBlankValues(line.concept_id)) >= 2

\* C18: for a line whose concept-ID field holds several non-blank
\* semicolon-delimited values, the converter and both passes of the cleaner
\* extract one candidate per value, each paired with the line's publication.
C18_SemicolonValues ==
    (fn_call.fn = "parse_line" /\ SeveralValues(fn_call.line)) =>
        /\ fn_result.converter.done =>
             fn_result.converter.pairs = ExpectedPairs(fn_call.line, "Cellosaurus")
        /\ fn_result.pass1.done => fn_result.pass1.pairs = ExpectedPairs(fn_call.line, "CLO")
        /\ fn_result.pass2.done => fn_result.pass2.pairs = ExpectedPairs(fn_call.line, "CLO")

\* the prefixes of the CURIEs the function builds
CuriePrefixes ==
    {"CHEBI", "MESH", "RO", "NCIT", "PR", "NCBITaxon", "dictyBase", "FB", "HGNC", "RGD",
     "EFO", "MGI", "NCBIGene", "orphanet", "WormBase", "SGD", "ZFIN"}

\* PREFIX:local-part
IsPrefixedCurie(v) == Len(v) >= 2 /\ v[1] \in CuriePrefixes /\ v[2] = ":"

\* C19: a call of convert_iri_to_curie either returns a PREFIX:local-part CURIE
\* different from its input, or returns its input unchanged, has added it to
\* unknown_iris and has counted it as UNKNOWN.
C19_ConvertedOrRecorded ==
    (fn_call.fn = "convert_iri_to_curie" /\ fn_result.done) =>
        IF fn_result.out.value = fn_call.iri
        THEN fn_call.iri \in fn_result.out.unknown_iris /\ fn_result.out.counted = "UNKNOWN"
        ELSE IsPrefixedCurie(fn_result.out.value)

\* C20: the list returned for two dictionaries is the list returned for any
\* other iteration order of the candidate -> publications dictionary; its
\* records are in ascending order of canonical identifier, one per identifier;
\* original_curies is ascending; publications are PMID-prefixed, in ascending
\* PMID order and without duplicates.
C20_DeterministicMerge ==
    (fn_call.fn = "merge_and_convert" /\ fn_result.done) =>
        LET out == fn_result.out IN
        /\ \A p \in SeqPermutations(fn_call.curie_to_pmids) :
             InMemoryOutput(p, fn_call.normalized_mapping) = out
        /\ \A i, j \in DOMAIN out : i < j => out[i].curie < out[j].curie
        /\ \A k \in DOMAIN out :
             /\ StrictlyAscending(out[k].original_curies)
             /\ \A i \in DOMAIN out[k].publications : out[k].publications[i][1] = "PMID:"
             /\ \A i, j \in DOMAIN out[k].publications :
                  i < j => out[k].publications[i][2] < out[k].publications[j][2]

\* two candidates met in descending order were merged into one record, and a
\* publication list that was unsorted or repeated a PMID went into it
C20_Witness ==
    /\ fn_call.fn = "merge_and_convert"
    /\ fn_result.done
    /\ Len(fn_call.curie_to_pmids) >= 2
    /\ fn_call.curie_to_pmids[1].curie > fn_call.curie_to_pmids[2].curie
    /\ \E i \in DOMAIN fn_call.curie_to_pmids :
         ~StrictlyAscending(fn_call.curie_to_pmids[i].pmids)
    /\ \E k \in DOMAIN fn_result.out :
         /\ Len(fn_result.out[k].original_curies) >= 2
         /\ Len(fn_result.out[k].publications) >= 2

\* the Pass 2 loop body applied to a sequence of (candidate, publications)
\* contributions, a lookup of an evicted identifier dropping the contribution
RECURSIVE Pass2Over(_, _, _, _)
Pass2Over(nm, rev, st, items) ==
    IF items = <<>> THEN st
    ELSE LET r == Pass2Step(nm, rev, st, Head(items).curie, Head(items).pmids)
         IN  Pass2Over(nm, rev, IF r.key_error THEN st ELSE r, Tail(items))

\* a table row whose publication literal is a list; a line that yields a pair
WellFormedRow(r) == r.pmids.kind = "list"

WellFormedLine(l) == l.kind = "ok"

\* the contributions of the well-formed rows among rs, in source order
RowContributions(rs) ==
    LET good == SelectSeq(rs, WellFormedRow)
    IN  [i \in 1..Len(good) |-> [curie |-> good[i].curie, pmids |-> Range(good[i].pmids.val)]]

LineContributions(ls) ==
    LET good == SelectSeq(ls, WellFormedLine)
    IN  [i \in 1..Len(good) |-> [curie |-> good[i].curie, pmids |-> {good[i].pmid}]]

\* the contributions of the well-formed rows the Pass 2 loop has handled so far
HandledContributions ==
    IF kind = "sqlite"
    THEN LET fetched == RowContributions(SubSeq(table, 1, Min(offset, Len(table))))
         IN  SubSeq(fetched, 1, Len(fetched) - Len(chunk))
    ELSE LineContributions(SubSeq(lines, 1, line_idx))

C21_State ==
    pc \in {"pass2", "finalize", "done"} =>
        LET st == Pass2Over(mapping, n2o,
                            [tracker |-> InitTracker(n2o), output |-> <<>>,
                             records_written |-> 0, key_error |-> FALSE],
                            HandledContributions)
        IN  /\ tracker = st.tracker
            /\ output = st.output
            /\ records_written = st.records_written
            /\ pc \in {"finalize", "done"} =>
                 HandledContributions =
                     IF kind = "sqlite" THEN RowContributions(table) ELSE LineContributions(lines)

\* the step that reads a malformed line
ReadsMalformedLine ==
    /\ kind = "pubtator" /\ pc = "pass2"
    /\ line_idx < Len(lines)
    /\ ~WellFormedLine(lines[line_idx + 1])

\* the step that fetches a chunk of rows holding a malformed one
FetchesMalformedRow ==
    /\ kind = "sqlite" /\ pc = "pass2" /\ chunk = <<>>
    /\ \E i \in (offset + 1)..Min(offset + ChunkSize, Len(table)) : ~WellFormedRow(table[i])

C22_CallerStep == fn_call'.fn \in {"caller_adds_key", "caller_removes_key"}

\* C22: clear_failed_normalizations leaves the failure set empty and the type
\* metadata as it was; clear_biolink_classes leaves the type metadata empty and
\* the failure set as it was; get_failed_normalizations_dict and
\* get_biolink_classes return the contents of the failure set and of the type
\* metadata and change neither; and a caller adding a key to, or removing one
\* from, the dictionary it was given changes neither.
C22_ClearAndCopy ==
    /\ [][fn_call'.fn = "clear_failed_normalizations" =>
            (failed' = EmptyDict /\ biolink' = biolink)]_vars
    /\ [][fn_call'.fn = "clear_biolink_classes" =>
            (biolink' = EmptyDict /\ failed' = failed)]_vars
    /\ [][fn_call'.fn = "get_failed_normalizations_dict" =>
            (fn_result'.val = failed /\ failed' = failed /\ biolink' = biolink)]_vars
    /\ [][fn_call'.fn = "get_biolink_classes" =>
            (fn_result'.val = biolink /\ failed' = failed /\ biolink' = biolink)]_vars
    /\ [][C22_CallerStep => (failed' = failed /\ biolink' = biolink)]_vars

\* the caller has removed a key from the failure dictionary it was given while
\* the normalizer still holds that key, and the type metadata is not empty
C22_Witness ==
    /\ fn_call.fn = "caller_removes_key"
    /\ fn_result.held = "failed"
    /\ \E c \in DOMAIN failed : c \notin DOMAIN fn_result.val
    /\ DOMAIN biolink # {}

\* the canonical identifiers of the mapping, and those with a record written
Canonicals == {mapping[c] : c \in DOMAIN mapping}

Emitted == {output[k].curie : k \in DOMAIN output}

C23_State ==
    pc \in {"pass2", "finalize", "done"} =>
        /\ DOMAIN tracker = Canonicals \ Emitted
        /\ Cardinality(DOMAIN tracker) <= Cardinality(Canonicals)
        /\ Cardinality(DOMAIN tracker) + Len(output) = Cardinality(Canonicals)

\* C23: during and after Pass 2 the keys of the progress tracker are exactly
\* the canonical identifiers of the mapping for which no record has been
\* written, so their number never exceeds the number of distinct canonical
\* identifiers; the step that writes a record writes one record and removes
\* that record's identifier, and nothing else, from the tracker; no other step
\* of Pass 2 changes the tracker's keys, so the tracker never gains a key.
C23_TrackerHoldsPending ==
    /\ []C23_State
    /\ [][(pc = "pass2" /\ output' # output) =>
            /\ Len(output') = Len(output) + 1
            /\ SubSeq(output', 1, Len(output)) = output
            /\ output'[Len(output')].curie \in DOMAIN tracker
            /\ DOMAIN tracker' = DOMAIN tracker \ {output'[Len(output')].curie}]_vars
    /\ [][(pc = "pass2" /\ output' = output) => DOMAIN tracker' = DOMAIN tracker]_vars
    /\ [][pc = "pass2" => DOMAIN tracker' \subseteq DOMAIN tracker]_vars

\* Pass 2 under way: one identifier's record is written and its state gone
\* from the tracker, another identifier of the mapping is still tracked
C23_Witness ==
    /\ pc = "pass2"
    /\ Len(output) = 1
    /\ output[1].curie \notin DOMAIN tracker
    /\ \E n \in DOMAIN tracker : n \in Canonicals /\ n # output[1].curie

\* ceil(n / k)
CeilDiv(n, k) == (n + k - 1) \div k

\* the places (chunk, position) where the chunks yielded hold candidate c
PlacesOf(chunks, c) ==
    {w \in UNION {{<<j, p>> : p \in DOMAIN chunks[j]} : j \in DOMAIN chunks} :
        chunks[w[1]][w[2]].curie = c}

C24_State ==
    fn_call.fn = "extract_data_in_chunks" =>
        LET t == fn_call.table
            k == fn_call.chunk_size
            chunks == fn_result.chunks
        IN  /\ Len(chunks) <= CeilDiv(Len(t), k)
            /\ fn_result.offset = Len(chunks) * k
            /\ \A j \in DOMAIN chunks :
                 \* chunk j holds the list-literal rows of rows (j-1)k+1 .. jk, in order
                 LET lo == (j - 1) * k + 1
                     hi == IF j * k <= Len(t) THEN j * k ELSE Len(t)
                     good == {i \in lo..hi : t[i].pmids.kind = "list"}
                 IN  /\ Len(chunks[j]) = Cardinality(good)
                     /\ \A i \in good :
                          \E p \in DOMAIN chunks[j] :
                              chunks[j][p] = [curie |-> t[i].curie, pmids |-> t[i].pmids.val]
            /\ fn_result.done =>
                 /\ Len(chunks) = CeilDiv(Len(t), k)
                 /\ \A i \in DOMAIN t :
                      Cardinality(PlacesOf(chunks, t[i].curie)) =
                          IF t[i].pmids.kind = "list" THEN 1 ELSE 0

SortedByCurie(s) == \A i, j \in DOMAIN s : i < j => s[i].curie <= s[j].curie

StreamCuries(s) == {s[i].curie : i \in DOMAIN s}

StreamPmids(s, c) == {s[i].pmid : i \in {j \in DOMAIN s : s[j].curie = c}}

\* C25: on a pair stream sorted by CURIE, pass2_aggregate_to_sqlite never
\* inserts a CURIE twice (no insert fails); the rows written while it runs are
\* one per CURIE whose pairs have all been read; and when it has finished there
\* is exactly one row per distinct CURIE of the stream, the last one included,
\* whose PMID list is the ascending list, without repeats, of all PMIDs the
\* stream pairs with that CURIE.
C25_OneRowPerCurie ==
    (fn_call.fn = "pass2_aggregate_to_sqlite" /\ SortedByCurie(fn_call.sorted_file)) =>
        LET s == fn_call.sorted_file
            rows == fn_result.rows
        IN  /\ ~fn_result.crashed
            /\ \A i, j \in DOMAIN rows : rows[i].curie = rows[j].curie => i = j
            /\ fn_result.records_written = Len(rows)
            /\ \A k \in DOMAIN rows :
                 /\ rows[k].curie \in StreamCuries(s)
                 /\ Range(rows[k].pmids) = StreamPmids(s, rows[k].curie)
                 /\ StrictlyAscending(rows[k].pmids)
            /\ fn_result.done =>
                 /\ {rows[k].curie : k \in DOMAIN rows} = StreamCuries(s)
                 /\ Len(rows) = Cardinality(StreamCuries(s))

\* a finished call on a sorted stream of two CURIEs, in which the last CURIE
\* came with a PMID twice and with another PMID, in descending order
C25_Witness ==
    /\ fn_call.fn = "pass2_aggregate_to_sqlite"
    /\ fn_result.done
    /\ SortedByCurie(fn_call.sorted_file)
    /\ Len(fn_call.sorted_file) = 4
    /\ fn_call.sorted_file[1].curie # fn_call.sorted_file[2].curie
    /\ fn_call.sorted_file[2].pmid > fn_call.sorted_file[3].pmid
    /\ fn_call.sorted_file[3].pmid = fn_call.sorted_file[4].pmid
    /\ Len(fn_result.rows) = 2
    /\ Len(fn_result.rows[2].pmids) = 2

\* C26: a run of OmniCorpCleaner.clean that extracted at least one candidate
\* does not raise, and once it has completed the failure file holds the sorted
\* failed candidates and the type metadata file holds the captured tag lists.
C26_SideChannelsThenDone ==
    (kind = "omnicorp" /\ fn_call.curie_to_pmids # <<>>) =>
        /\ pc # "crashed"
        /\ pc = "done" =>
             /\ failed_file.exists /\ failed_file.content = SortedSeq(DOMAIN failed)
             /\ DOMAIN biolink # {} => (biolink_file.exists /\ biolink_file.content = biolink)

\* C27: for every concept ID and entity type, PubTatorCleaner's and
\* PubTatorToSQLiteConverter's convert_concept_id_to_curie return the same
\* candidate, or both return none.
C27_SameCandidate ==
    (fn_call.fn = "convert_concept_id_to_curie"
        /\ fn_result.cleaner.done /\ fn_result.converter.done) =>
        fn_result.cleaner.value = fn_result.converter.value

\* the candidates of the row that the Pass 2 loop is about to process
NextRowCandidates ==
    IF pc # "pass2" THEN {}
    ELSE IF kind = "sqlite"
    THEN IF chunk # <<>> THEN {Head(chunk).curie} ELSE {}
    ELSE IF kind = "pubtator" /\ line_idx < Len(lines) /\ lines[line_idx + 1].kind = "ok"
    THEN {lines[line_idx + 1].curie}
    ELSE {}

\* C28: whenever the Pass 2 loop of either cleaner is about to process a row
\* whose candidate is in the mapping, the candidate's canonical identifier is
\* still a key of the progress tracker, and no run ends in a missing-key error.
C28_NoLookupAfterEviction ==
    /\ pc # "crashed"
    /\ \A c \in NextRowCandidates :
         c \in DOMAIN mapping => mapping[c] \in DOMAIN tracker

\* C29: when a SQLiteCleaner run has completed, whatever runs went before it
\* into the same directory, the failure file there lists exactly the
\* candidates that failed in this run (none, if none failed), the type
\* metadata file holds this run's tag lists, and the main output holds only
\* this run's records.
C29_FilesDescribeLastRun ==
    (fn_call.fn = "clean" /\ pc = "done") =>
        /\ (IF failed_file.exists THEN failed_file.content ELSE <<>>) = SortedSeq(DOMAIN failed)
        /\ (IF biolink_file.exists THEN biolink_file.content ELSE EmptyDict) = biolink
        /\ \A k \in DOMAIN output :
             output[k].curie \in {mapping[c] : c \in DOMAIN mapping}

\* C30: on one CurieNormalizer instance, after every normalize_curies call,
\* no candidate that the call has just mapped (a key of the returned mapping)
\* is in the instance's failure set, whatever earlier calls recorded.
C30_FailureSetDisjoint ==
    (kind = "instance" /\ fn_call.fn = "normalize_curies") =>
        DOMAIN mapping \cap DOMAIN failed = {}

====
